---------------------------- MODULE Spec2Model ----------------------------
(***************************************************************************)
(* Model of the pNode gossip analytics engine: the per-node health and     *)
(* reputation scorers (health.ts), the failure / partition detector and    *)
(* region aggregator (partitions.ts), the explainability generator         *)
(* (explain.ts), the polling hook usePNodeData with its snapshot store     *)
(* (hooks.ts) and the time-travel view and display ordering of App.tsx.    *)
(*                                                                         *)
(* Numbers.  A JavaScript value is a record [t, v]: t is "num" (v is the   *)
(* number), "undef" (undefined or null), "str" (a non-numeric string such  *)
(* as "abc"), "nan" or "inf" (v = 1 or -1).  Ratios and scores are fixed   *)
(* point: the real number r is the integer r * One.  One is a multiple of  *)
(* 450, 600 and 100 * 100, so the latency and freshness transforms and     *)
(* the two weighted blends (percent weights) are exact on inputs that are  *)
(* multiples of 1/1800.  Peer counts, milliseconds of latency and seconds  *)
(* of time are plain integers.                                             *)
(***************************************************************************)
EXTENDS Integers, Sequences, FiniteSets, TLC

VARIABLES
    (* usePNodeData: React state *)
    nodes, loading, error, healthById, reputationById, networkHealth,
    snapshots, failures, regionStats,
    (* usePNodeData: the effect, its closure and the fetches in flight *)
    effect, inflight, started,
    (* history variable: the rosters of the successful fetches, in order *)
    ingested,
    (* App: React state, the time-travel memo and the display-order memo *)
    timeMode, timeIndex, reputationFilter, view, orderedNodes,
    (* discoverPNodes: argument, the seeds' answers, result *)
    seedNodes, gossip, discovered,
    (* the discovery page: textarea, module state, buttons, calls in flight *)
    seedText, lastSeedList, currentResults, isBusy, discoverDisabled, refreshDisabled,
    statusText, running,
    (* Date.now(), in seconds *)
    now,
    (* the pure functions: position, arguments and results *)
    pc, argNode, argHealth, argRoster, health, reputation, netHealth, explain,
    argSnapshots, argCurrent, analysis

hookVars == <<nodes, loading, error, healthById, reputationById, networkHealth,
              snapshots, failures, regionStats, effect, inflight, started,
              ingested>>
scoreVars == <<argNode, argHealth, argRoster, health, reputation, netHealth, explain>>
detectVars == <<argSnapshots, argCurrent, analysis>>
viewVars == <<timeMode, timeIndex, reputationFilter, view, orderedNodes>>
discoverVars == <<seedNodes, gossip, discovered>>
pageState == <<seedText, lastSeedList, currentResults, isBusy, discoverDisabled,
               refreshDisabled, statusText, running>>
pageVars == <<discoverVars, pageState>>
vars == <<hookVars, viewVars, pageVars, now, pc, scoreVars, detectVars>>

-----------------------------------------------------------------------------
(* JavaScript values *)

One == 450 * 4 * 100 * 100

Pct(p) == p * (One \div 100)

Undef == [t |-> "undef", v |-> 0]
Str == [t |-> "str", v |-> 0]
NaN == [t |-> "nan", v |-> 0]
PosInf == [t |-> "inf", v |-> 1]
NegInf == [t |-> "inf", v |-> -1]
Num(x) == [t |-> "num", v |-> x]

Max(a, b) == IF a > b THEN a ELSE b
Min(a, b) == IF a < b THEN a ELSE b

(* a ?? b ?? ... ?? dflt : the first operand that is neither null nor undefined *)
RECURSIVE Coalesce(_, _)
Coalesce(xs, dflt) ==
    IF xs = <<>> THEN dflt
    ELSE IF Head(xs).t # "undef" THEN Head(xs)
    ELSE Coalesce(Tail(xs), dflt)

(* Number(x), and the coercion Math.min / Math.max / < / > apply *)
ToNumber(x) == IF x.t \in {"str", "undef"} THEN NaN ELSE x

(* x < k and x > k for a number k: false when x coerces to NaN *)
JsLess(x, k) ==
    LET y == ToNumber(x)
    IN  CASE y.t = "num" -> y.v < k
          [] y.t = "inf" -> y.v = -1
          [] OTHER -> FALSE

JsGreater(x, k) ==
    LET y == ToNumber(x)
    IN  CASE y.t = "num" -> y.v > k
          [] y.t = "inf" -> y.v = 1
          [] OTHER -> FALSE

JsGeq(x, k) ==
    LET y == ToNumber(x)
    IN  CASE y.t = "num" -> y.v >= k
          [] y.t = "inf" -> y.v = 1
          [] OTHER -> FALSE

(* typeof x === "number" *)
IsNumberType(x) == x.t \in {"num", "nan", "inf"}

(* truthiness, as read by x || y *)
Truthy(x) ==
    CASE x.t = "num" -> x.v # 0
      [] x.t = "str" -> TRUE
      [] x.t = "inf" -> TRUE
      [] OTHER -> FALSE

-----------------------------------------------------------------------------
(* health.ts *)

(* the clamp without its NaN guard *)
clamp01_NoNaNGuard(x) ==
    LET y == ToNumber(x)
    IN  CASE y.t = "nan" -> NaN
          [] y.t = "inf" -> IF y.v = 1 THEN Num(One) ELSE Num(0)
          [] OTHER -> Num(Max(0, Min(One, y.v)))

(* Number.isNaN does not coerce: a non-numeric string passes the guard and  *)
(* Math.min(1, "abc") is NaN, which Math.max(0, NaN) returns.               *)
clamp01(x) ==
    IF x.t = "nan" THEN Num(0)
    ELSE LET y == ToNumber(x)
         IN  CASE y.t = "nan" -> NaN
               [] y.t = "inf" -> IF y.v = 1 THEN Num(One) ELSE Num(0)
               [] OTHER -> Num(Max(0, Min(One, y.v)))

PeersSeenOf(n) == Coalesce(<<n.peers_seen, n.peersSeen>>, Num(0))
PeerDiversityOf(n) == Coalesce(<<n.peer_diversity, n.peerDiversity>>, Num(0))
ResponseLatencyOf(n) == Coalesce(<<n.response_latency, n.responseLatency>>, Undef)
UptimeOf(n) == Coalesce(<<n.uptime, n.uptime_ratio, n.uptimeRatio>>, Undef)
DataAvailabilityOf(n) ==
    Coalesce(<<n.data_availability, n.dataAvailability, n.dataAvailabilityRatio>>, Undef)

(* Math.log10(1 + peersSeen) / 2.  1 + "abc" is the string "1abc", whose    *)
(* logarithm is NaN; log10 of 0 is -Infinity and of a negative number NaN.  *)
(* The irrational values are rounded to the nearest 1/1800.                 *)
HalfLog10OnePlus(x) ==
    CASE x.t = "str" -> NaN
      [] x.t = "nan" -> NaN
      [] x.t = "inf" -> IF x.v = 1 THEN PosInf ELSE NaN
      [] x.t = "num" /\ x.v < -1 -> NaN
      [] x.t = "num" /\ x.v = -1 -> NegInf
      [] x.t = "num" /\ x.v = 0 -> Num(0)
      [] x.t = "num" /\ x.v = 1 -> Num(2710000)
      [] x.t = "num" /\ x.v = 2 -> Num(4290000)
      [] x.t = "num" /\ x.v = 3 -> Num(5420000)
      [] x.t = "num" /\ x.v = 4 -> Num(6290000)
      [] x.t = "num" /\ x.v = 9 -> Num(One \div 2)
      [] x.t = "num" /\ x.v = 99 -> Num(One)

(* clamp01(1 - (ms - 50) / 450) and whether the value was numeric; the      *)
(* default 0.7 stands when the field is absent or Number(field) is NaN.     *)
LatencyIsNumeric(n) ==
    /\ ResponseLatencyOf(n).t # "undef"
    /\ ToNumber(ResponseLatencyOf(n)).t # "nan"

LatencyScore(n) ==
    IF LatencyIsNumeric(n)
    THEN LET ms == ToNumber(ResponseLatencyOf(n))
         IN  IF ms.t = "inf"
             THEN clamp01(IF ms.v = 1 THEN NegInf ELSE PosInf)
             ELSE clamp01(Num(One - (ms.v - 50) * (One \div 450)))
    ELSE Num(Pct(70))

(* new Date(lastSeen): NaN for an unparseable value *)
LastSeenMs(n) == IF n.lastSeen.t = "num" THEN n.lastSeen ELSE NaN

Horizon == 600

AgeSec(n, t) == t - LastSeenMs(n).v

(* clamp01(1 - ageSec / horizon); an age beyond twice the horizon on either *)
(* side is clamped to the same end of [0,1], so it is cut there to keep the *)
(* product small                                                            *)
FreshnessScore(n, t) ==
    IF LastSeenMs(n).t # "nan"
    THEN clamp01(Num(One - Max(-2 * Horizon, Min(2 * Horizon, AgeSec(n, t)))
                              * (One \div Horizon)))
    ELSE Num(Pct(50))

StatusBase(n) ==
    IF n.status = "online" THEN Pct(90)
    ELSE IF n.status = "unknown" THEN Pct(60) ELSE Pct(20)

PeersScore(n) == clamp01(HalfLog10OnePlus(PeersSeenOf(n)))
DiversityScore(n) ==
    clamp01(IF Truthy(PeerDiversityOf(n)) THEN PeerDiversityOf(n) ELSE Num(Pct(50)))
UptimeScore(n) == clamp01(Coalesce(<<UptimeOf(n)>>, Num(Pct(80))))
DataScore(n) == clamp01(Coalesce(<<DataAvailabilityOf(n)>>, Num(Pct(90))))

(* a weighted sum of numbers: NaN as soon as one term is NaN.  terms is a   *)
(* sequence of <<weight in percent, value>>.                                *)
RECURSIVE WeightedSum(_)
WeightedSum(terms) ==
    IF terms = <<>> THEN Num(0)
    ELSE LET rest == WeightedSum(Tail(terms))
             w == Head(terms)[1]
             x == Head(terms)[2]
         IN  IF rest.t = "nan" \/ x.t = "nan" THEN NaN
             ELSE Num(rest.v + (w * x.v) \div 100)

SelectSeq2(s, keep) ==
    LET F[i \in 0..Len(s)] ==
            IF i = 0 THEN <<>>
            ELSE IF keep[i] THEN Append(F[i - 1], s[i]) ELSE F[i - 1]
    IN  F[Len(s)]

ReasonPeers == "Low peer count in gossip"
ReasonDiversity == "Peers lack geographic / ASN diversity"
ReasonLatency == "High gossip response latency"
ReasonUptime == "Uptime below target SLA"
ReasonData == "Data availability below network baseline"
ReasonStale == "Not seen in recent gossip window"
ReasonHealthy == "Healthy gossip connectivity and recent activity"

HealthReasons(n, t) ==
    LET all == <<ReasonPeers, ReasonDiversity, ReasonLatency, ReasonUptime,
                 ReasonData, ReasonStale>>
        fired == << JsLess(PeersSeenOf(n), 3),
                    JsLess(DiversityScore(n), Pct(40)),
                    LatencyIsNumeric(n) /\ JsGreater(ResponseLatencyOf(n), 350),
                    JsLess(UptimeScore(n), Pct(80)),
                    JsLess(DataScore(n), Pct(80)),
                    LastSeenMs(n).t # "nan" /\ AgeSec(n, t) > Horizon >>
    IN  SelectSeq2(all, fired)

HealthScore(n, t) ==
    clamp01(WeightedSum(<< <<25, Num(StatusBase(n))>>,
                           <<15, PeersScore(n)>>,
                           <<15, DiversityScore(n)>>,
                           <<15, LatencyScore(n)>>,
                           <<15, UptimeScore(n)>>,
                           <<10, DataScore(n)>>,
                           <<5, FreshnessScore(n, t)>> >>))

HealthTier_BadBelowHalf(score) ==
    IF JsLess(score, Pct(50)) THEN "bad"
    ELSE IF JsLess(score, Pct(70)) THEN "warning" ELSE "good"

HealthTier(score) ==
    IF JsLess(score, Pct(40)) THEN "bad"
    ELSE IF JsLess(score, Pct(70)) THEN "warning" ELSE "good"

computeNodeHealth_HealthyWheneverQuiet(n, t) ==
    LET score == HealthScore(n, t)
        tier == HealthTier(score)
        reasons == HealthReasons(n, t)
    IN  [score |-> score,
         tier |-> tier,
         reasons |-> IF reasons = <<>> THEN <<ReasonHealthy>> ELSE reasons]

computeNodeHealth(n, t) ==
    LET score == HealthScore(n, t)
        tier == HealthTier(score)
        reasons == HealthReasons(n, t)
    IN  [score |-> score,
         tier |-> tier,
         reasons |-> IF reasons = <<>> /\ tier = "good"
                     THEN <<ReasonHealthy>> ELSE reasons]

RECURSIVE SumHealth(_, _)
SumHealth(ns, t) ==
    IF ns = <<>> THEN 0
    ELSE computeNodeHealth(Head(ns), t).score.v + SumHealth(Tail(ns), t)

(* the mean of the scores, rounded down to a multiple of 1 / One *)
computeNetworkHealth(ns, t) ==
    IF Len(ns) = 0 THEN Num(0)
    ELSE Num(SumHealth(ns, t) \div Len(ns))

VersionFreshnessOf(n) == Coalesce(<<n.version_freshness>>, Num(Pct(70)))

ReputationTier_GoldAbove(score) ==
    IF JsGreater(score, Pct(80)) THEN "gold"
    ELSE IF JsLess(score, Pct(50)) THEN "risky" ELSE "silver"

ReputationTier(score) ==
    IF JsGeq(score, Pct(80)) THEN "gold"
    ELSE IF JsLess(score, Pct(50)) THEN "risky" ELSE "silver"

ReputationScore_UptimeLight(n, h) ==
    clamp01(WeightedSum(<< <<12, UptimeScore(n)>>,
                           <<35, DataScore(n)>>,
                           <<35, LatencyScore(n)>>,
                           <<12, clamp01(VersionFreshnessOf(n))>>,
                           <<6, h.score>> >>))

ReputationScore(n, h) ==
    clamp01(WeightedSum(<< <<35, UptimeScore(n)>>,
                           <<35, DataScore(n)>>,
                           <<12, LatencyScore(n)>>,
                           <<12, clamp01(VersionFreshnessOf(n))>>,
                           <<6, h.score>> >>))

computeReputation(n, h) ==
    LET raw == ReputationScore(n, h)
    IN  [score |-> raw, tier |-> ReputationTier(raw)]

-----------------------------------------------------------------------------
(* partitions.ts *)

Range(s) == {s[i] : i \in 1..Len(s)}

RoundTenth_Truncating(x) == x \div 10

(* Math.round(x / 10) for an integer x: halves round towards +Infinity *)
RoundTenth(x) == (x + 5) \div 10

getRegionKey(n) == <<RoundTenth(n.latitude) * 10, RoundTenth(n.longitude) * 10>>

CountStatus(ns, st) == Cardinality({i \in 1..Len(ns) : ns[i].status = st})

(* the keys of a Map filled by walking ns: first occurrences, in order *)
RECURSIVE RegionKeys(_)
RegionKeys(ns) ==
    IF ns = <<>> THEN <<>>
    ELSE LET init == RegionKeys(SubSeq(ns, 1, Len(ns) - 1))
             key == getRegionKey(ns[Len(ns)])
         IN  IF key \in Range(init) THEN init ELSE Append(init, key)

InRegion(ns, key) == SelectSeq2(ns, [i \in 1..Len(ns) |-> getRegionKey(ns[i]) = key])

computeRegionStats_OfflineUnlessOnline(ns) ==
    [key \in Range(RegionKeys(ns)) |->
        LET members == InRegion(ns, key)
        IN  [total |-> Len(members),
             online |-> CountStatus(members, "online"),
             offline |-> Len(members) - CountStatus(members, "online")]]

computeRegionStats(ns) ==
    [key \in Range(RegionKeys(ns)) |->
        LET members == InRegion(ns, key)
        IN  [total |-> Len(members),
             online |-> CountStatus(members, "online"),
             offline |-> CountStatus(members, "offline")]]

(* anomaliesById: a Map from node id to the array of its tags *)
NoAnomalies == [id \in {} |-> <<>>]

TagsOf(m, id) == IF id \in DOMAIN m THEN m[id] ELSE <<>>

PushTag(m, id, tag) ==
    [k \in DOMAIN m \cup {id} |-> IF k = id THEN Append(TagsOf(m, id), tag) ELSE m[k]]

PushTagOnce(m, id, tag) ==
    IF tag \in Range(TagsOf(m, id)) THEN m ELSE PushTag(m, id, tag)

(* new Map(nodes.map(n => [n.pnodeId, n])).get(id): the last node of that id *)
HasId(ns, id) == \E i \in 1..Len(ns) : ns[i].pnodeId = id
GetById(ns, id) ==
    ns[CHOOSE i \in 1..Len(ns) :
          /\ ns[i].pnodeId = id
          /\ \A j \in (i + 1)..Len(ns) : ns[j].pnodeId # id]

IsSuddenDrop_MissingOnly(prev, cur) ==
    /\ prev.status = "online"
    /\ ~HasId(cur, prev.pnodeId)

IsSuddenDrop(prev, cur) ==
    /\ prev.status = "online"
    /\ \/ ~HasId(cur, prev.pnodeId)
       \/ GetById(cur, prev.pnodeId).status = "offline"

RECURSIVE MarkSuddenDrops(_, _, _)
MarkSuddenDrops(m, prevNodes, cur) ==
    IF prevNodes = <<>> THEN m
    ELSE LET prev == Head(prevNodes)
             m2 == IF IsSuddenDrop(prev, cur)
                   THEN PushTag(m, prev.pnodeId, "sudden_drop") ELSE m
         IN  MarkSuddenDrops(m2, Tail(prevNodes), cur)

MinRegionSize == 5

IsIsolatedRegion_StrictRatio(ns, key) ==
    LET members == InRegion(ns, key)
        offline == CountStatus(members, "offline")
    IN  Len(members) >= MinRegionSize /\ 5 * offline > 3 * Len(members)

(* v.total >= 5 && v.offline / v.total >= 0.6 *)
IsIsolatedRegion(ns, key) ==
    LET members == InRegion(ns, key)
        offline == CountStatus(members, "offline")
    IN  Len(members) >= MinRegionSize /\ 5 * offline >= 3 * Len(members)

IsolatedRegions(ns) ==
    LET keys == RegionKeys(ns)
    IN  SelectSeq2(keys, [i \in 1..Len(keys) |-> IsIsolatedRegion(ns, keys[i])])

RECURSIVE MarkIsolated(_, _, _)
MarkIsolated(m, ns, isolated) ==
    IF ns = <<>> THEN m
    ELSE LET n == Head(ns)
             m2 == IF getRegionKey(n) \in Range(isolated)
                   THEN PushTagOnce(m, n.pnodeId, "isolated") ELSE m
         IN  MarkIsolated(m2, Tail(ns), isolated)

TenMin == 10 * 60

(* ageMs(n) > TEN_MIN, Infinity for an unparseable lastSeen *)
TooOld(n, t) ==
    LET ts == LastSeenMs(n)
    IN  IF ts.t = "nan" THEN TRUE ELSE t - ts.v > TenMin

IsBlackHole_FewerThanThree(n, t) ==
    \/ TooOld(n, t)
    \/ JsLess(PeersSeenOf(n), 3)
    \/ JsLess(Coalesce(<<DataAvailabilityOf(n)>>, Num(One)), Pct(50))

IsBlackHole(n, t) ==
    \/ TooOld(n, t)
    \/ JsLess(PeersSeenOf(n), 2)
    \/ JsLess(Coalesce(<<DataAvailabilityOf(n)>>, Num(One)), Pct(50))

RECURSIVE MarkBlackHoles(_, _, _)
MarkBlackHoles(m, ns, t) ==
    IF ns = <<>> THEN m
    ELSE LET n == Head(ns)
             m2 == IF IsBlackHole(n, t)
                   THEN PushTagOnce(m, n.pnodeId, "black_hole") ELSE m
         IN  MarkBlackHoles(m2, Tail(ns), t)

(* partitionReason: null, or a text followed by the joined region keys *)
NullReason == [text |-> "null", regions |-> <<>>]
RegionReason(keys) == [text |-> "Region outage or isolation in ", regions |-> keys]
DropReason == [text |-> "Large set of peers dropped from gossip abruptly", regions |-> <<>>]
MajorityReason == [text |-> "Majority of pNodes appear offline or unreachable", regions |-> <<>>]
SkewReason(v) == [text |-> "Version skew risk: most nodes report version ", regions |-> <<v>>]
InstabilityReason ==
    [text |-> "Latency spike or upstream network instability suspected", regions |-> <<>>]

ManySuddenDrops(m) == Cardinality({id \in DOMAIN m : "sudden_drop" \in Range(m[id])})

Verdict_MajorityFirst(isolated, drops, ns) ==
    LET offlineCount == CountStatus(ns, "offline")
        onlineCount == CountStatus(ns, "online")
    IN  IF offlineCount > onlineCount
        THEN [suspected |-> TRUE, reason |-> MajorityReason]
        ELSE IF isolated # <<>>
        THEN [suspected |-> TRUE, reason |-> RegionReason(isolated)]
        ELSE IF drops > 0 /\ 5 * drops > Len(ns)
        THEN [suspected |-> TRUE, reason |-> DropReason]
        ELSE [suspected |-> FALSE, reason |-> NullReason]

(* manySuddenDrops / total > 0.2 is 5 * manySuddenDrops > total *)
Verdict_MajorityUnexplained(isolated, drops, ns) ==
    LET offlineCount == CountStatus(ns, "offline")
        onlineCount == CountStatus(ns, "online")
    IN  IF isolated # <<>>
        THEN [suspected |-> TRUE, reason |-> RegionReason(isolated)]
        ELSE IF drops > 0 /\ 5 * drops > Len(ns)
        THEN [suspected |-> TRUE, reason |-> DropReason]
        ELSE IF offlineCount > onlineCount
        THEN [suspected |-> TRUE, reason |-> NullReason]
        ELSE [suspected |-> FALSE, reason |-> NullReason]

Verdict(isolated, drops, ns) ==
    LET offlineCount == CountStatus(ns, "offline")
        onlineCount == CountStatus(ns, "online")
    IN  IF isolated # <<>>
        THEN [suspected |-> TRUE, reason |-> RegionReason(isolated)]
        ELSE IF drops > 0 /\ 5 * drops > Len(ns)
        THEN [suspected |-> TRUE, reason |-> DropReason]
        ELSE IF offlineCount > onlineCount
        THEN [suspected |-> TRUE, reason |-> MajorityReason]
        ELSE [suspected |-> FALSE, reason |-> NullReason]

(* n.version || "unknown", tallied in a Map; the stable sort by count puts  *)
(* the first-inserted of the most frequent versions in front.               *)
VersionOf(n) == IF n.version = "" THEN "unknown" ELSE n.version

RECURSIVE VersionKeys(_)
VersionKeys(ns) ==
    IF ns = <<>> THEN <<>>
    ELSE LET init == VersionKeys(SubSeq(ns, 1, Len(ns) - 1))
             v == VersionOf(ns[Len(ns)])
         IN  IF v \in Range(init) THEN init ELSE Append(init, v)

VersionCount(ns, v) == Cardinality({i \in 1..Len(ns) : VersionOf(ns[i]) = v})

Dominant(ns) ==
    LET keys == VersionKeys(ns)
        i == CHOOSE i \in 1..Len(keys) :
                /\ \A j \in 1..Len(keys) :
                      VersionCount(ns, keys[j]) <= VersionCount(ns, keys[i])
                /\ \A j \in 1..(i - 1) :
                      VersionCount(ns, keys[j]) < VersionCount(ns, keys[i])
    IN  keys[i]

ProbableCause(verdict, ns) ==
    IF verdict.suspected /\ verdict.reason = NullReason
    THEN IF Dominant(ns) # "unknown" /\ 2 * VersionCount(ns, Dominant(ns)) > Len(ns)
         THEN SkewReason(Dominant(ns))
         ELSE InstabilityReason
    ELSE verdict.reason

EmptyAnalysis ==
    [anomaliesById |-> NoAnomalies,
     partitionSuspected |-> FALSE,
     partitionReason |-> NullReason]

(* analyzeFailures past its guard on the empty roster *)
AnalyzeRoster(snaps, currentNodes, t) ==
    LET hasLatest == Len(snaps) >= 1
        hasPrev == Len(snaps) >= 2
        dropped == IF hasPrev /\ hasLatest
                   THEN MarkSuddenDrops(NoAnomalies,
                                        snaps[Len(snaps) - 1].nodes,
                                        currentNodes)
                   ELSE NoAnomalies
        isolated == IsolatedRegions(currentNodes)
        tagged == MarkIsolated(dropped, currentNodes, isolated)
        anomalies == MarkBlackHoles(tagged, currentNodes, t)
        verdict == Verdict(isolated, ManySuddenDrops(anomalies), currentNodes)
    IN  [anomaliesById |-> anomalies,
         partitionSuspected |-> verdict.suspected,
         partitionReason |-> ProbableCause(verdict, currentNodes)]

analyzeFailures_NoEmptyGuard(snaps, currentNodes, t) ==
    AnalyzeRoster(snaps, currentNodes, t)

analyzeFailures_NeedsHistory(snaps, currentNodes, t) ==
    IF Len(currentNodes) = 0 \/ Len(snaps) < 2
    THEN EmptyAnalysis
    ELSE AnalyzeRoster(snaps, currentNodes, t)

analyzeFailures(snaps, currentNodes, t) ==
    IF Len(currentNodes) = 0
    THEN EmptyAnalysis
    ELSE AnalyzeRoster(snaps, currentNodes, t)

-----------------------------------------------------------------------------
(* explain.ts *)

WhyOffline == "This node is currently marked offline in gossip."
WhyUnknown == "This node has an unknown status and may not be consistently reachable."
WhyOnline == "This node is currently online and participating in gossip."
WhySuddenDrop == "It recently dropped from gossip after being online (sudden peer drop)."
WhyIsolated == "Low gossip reach due to regional clustering or isolation."
WhyBlackHole ==
    "Behaves like a gossip black hole: stale last seen, low peers, or low data availability."
WhyGold == "Long-lived uptime and storage reliability give this node a Gold reputation."
WhySilver == "Solid but imperfect track record, classified as Silver reputation."
WhyRisky == "Risky reputation: uptime, responsiveness, or storage reliability trail peers."
WhyStorage == "Storage usage is significantly higher than peer average."

PredictDrift ==
    [message |-> "Node is drifting out of recent gossip; likely to go offline within ~2h if trend continues.",
     confidence |-> "medium"]
PredictUptime ==
    [message |-> "Low historical uptime; expect intermittent availability or further drops.",
     confidence |-> "high"]
PredictStorage ==
    [message |-> "Storage underperforming compared to peers; saturation or reliability risk.",
     confidence |-> "medium"]

PushAllOnce_Unchecked(why, rs) == why \o rs

(* reasons.forEach(r => { if (!why.includes(r)) why.push(r) }) *)
RECURSIVE PushAllOnce(_, _)
PushAllOnce(why, rs) ==
    IF rs = <<>> THEN why
    ELSE PushAllOnce(IF Head(rs) \in Range(why) THEN why ELSE Append(why, Head(rs)),
                     Tail(rs))

RECURSIVE SumStorage(_)
SumStorage(ns) ==
    IF ns = <<>> THEN 0 ELSE Head(ns).storageUsed + SumStorage(Tail(ns))

(* avgStorage > 0 && node.storageUsed > avgStorage * 1.5 *)
StorageOutlier(node, allNodes) ==
    /\ Len(allNodes) > 0
    /\ SumStorage(allNodes) > 0
    /\ 2 * node.storageUsed * Len(allNodes) > 3 * SumStorage(allNodes)

TrendWindow == 20

LastN(s, k) == SubSeq(s, Max(1, Len(s) - k + 1), Len(s))

(* s.nodes.find(n => n.pnodeId === id): the first node of that id *)
FindById(ns, id) ==
    ns[CHOOSE i \in 1..Len(ns) :
          /\ ns[i].pnodeId = id
          /\ \A j \in 1..(i - 1) : ns[j].pnodeId # id]

TrendAges_WholeHistory(node, snaps, t) ==
    LET seen == SelectSeq2(snaps,
                           [i \in 1..Len(snaps) |-> HasId(snaps[i].nodes, node.pnodeId)])
    IN  [i \in 1..Len(seen) |->
            LET n == FindById(seen[i].nodes, node.pnodeId)
            IN  IF LastSeenMs(n).t = "nan" THEN PosInf ELSE Num(t - LastSeenMs(n).v)]

(* the last-seen ages of the node over its appearances in the last 20 snapshots *)
TrendAges(node, snaps, t) ==
    LET window == LastN(snaps, TrendWindow)
        seen == SelectSeq2(window,
                           [i \in 1..Len(window) |-> HasId(window[i].nodes, node.pnodeId)])
    IN  [i \in 1..Len(seen) |->
            LET n == FindById(seen[i].nodes, node.pnodeId)
            IN  IF LastSeenMs(n).t = "nan" THEN PosInf ELSE Num(t - LastSeenMs(n).v)]

(* last > first * 1.4 *)
Drifting(first, last) ==
    CASE first.t = "inf" -> FALSE
      [] last.t = "inf" -> TRUE
      [] OTHER -> 5 * last.v > 7 * first.v

Predictions_UptimeBelowSixty(node, snaps, t) ==
    LET ages == TrendAges(node, snaps, t)
        recent == LastN(ages, 3)
    IN  (IF Len(ages) >= 3 /\ Drifting(recent[1], recent[Len(recent)])
         THEN <<PredictDrift>> ELSE <<>>)
        \o (IF IsNumberType(UptimeOf(node)) /\ JsLess(UptimeOf(node), Pct(60))
            THEN <<PredictUptime>> ELSE <<>>)
        \o (IF IsNumberType(DataAvailabilityOf(node))
               /\ JsLess(DataAvailabilityOf(node), Pct(60))
            THEN <<PredictStorage>> ELSE <<>>)

Predictions(node, snaps, t) ==
    LET ages == TrendAges(node, snaps, t)
        recent == LastN(ages, 3)
    IN  (IF Len(ages) >= 3 /\ Drifting(recent[1], recent[Len(recent)])
         THEN <<PredictDrift>> ELSE <<>>)
        \o (IF IsNumberType(UptimeOf(node)) /\ JsLess(UptimeOf(node), Pct(70))
            THEN <<PredictUptime>> ELSE <<>>)
        \o (IF IsNumberType(DataAvailabilityOf(node))
               /\ JsLess(DataAvailabilityOf(node), Pct(60))
            THEN <<PredictStorage>> ELSE <<>>)

(* an optional argument is a sequence of at most one value *)
Why(node, optHealth, optReputation, fa, allNodes) ==
    LET anomalies == Range(TagsOf(fa.anomaliesById, node.pnodeId))
        w1 == << IF node.status = "offline" THEN WhyOffline
                 ELSE IF node.status = "unknown" THEN WhyUnknown ELSE WhyOnline >>
        w2 == w1 \o (IF "sudden_drop" \in anomalies THEN <<WhySuddenDrop>> ELSE <<>>)
        w3 == w2 \o (IF "isolated" \in anomalies THEN <<WhyIsolated>> ELSE <<>>)
        w4 == w3 \o (IF "black_hole" \in anomalies THEN <<WhyBlackHole>> ELSE <<>>)
        w5 == IF optHealth # <<>> THEN PushAllOnce(w4, optHealth[1].reasons) ELSE w4
        w6 == IF optReputation # <<>>
              THEN Append(w5, IF optReputation[1].tier = "gold" THEN WhyGold
                              ELSE IF optReputation[1].tier = "silver" THEN WhySilver
                              ELSE WhyRisky)
              ELSE w5
    IN  IF StorageOutlier(node, allNodes) THEN Append(w6, WhyStorage) ELSE w6

buildNodeExplainability(node, optHealth, optReputation, fa, snaps, allNodes, t) ==
    [why |-> Why(node, optHealth, optReputation, fa, allNodes),
     predictions |-> Predictions(node, snaps, t)]

-----------------------------------------------------------------------------
(* App.tsx: the time-travel memo and the display ordering *)

TimeModes == {"live", "1h", "24h", "7d"}

WindowSec(mode) ==
    IF mode = "1h" THEN 3600 ELSE IF mode = "24h" THEN 86400 ELSE 7 * 86400

SyntheticSteps == 12

(* (idx * 7919 + i * 104729) % 1000, the jitter in thousandths *)
Jitter(idx, i) == (idx * 7919 + i * 104729) % 1000

SyntheticStatus_AlwaysDowngrade(status, j) ==
    IF status = "online" THEN "unknown"
    ELSE IF status = "unknown" THEN "offline"
    ELSE status

SyntheticStatus(status, j) ==
    IF status = "online" /\ j > 900 THEN "unknown"
    ELSE IF status = "unknown" /\ j > 800 THEN "offline"
    ELSE status

(* new Date(clone.lastSeen).getTime() || now : an unparseable or zero       *)
(* timestamp falls back to now                                              *)
BaseLastSeen(n, t) ==
    IF n.lastSeen.t = "num" /\ n.lastSeen.v # 0 THEN n.lastSeen.v ELSE t

(* (jitter - 0.5) * windowSec * 0.4, in whole seconds (rounded down) *)
OffsetSec(j, w) == ((j - 500) * w * 4) \div 10000

(* the clone of node n (at index idx) in synthetic step i *)
SyntheticNode(n, idx, i, w, t) ==
    [n EXCEPT !.status = SyntheticStatus(n.status, Jitter(idx, i)),
              !.lastSeen = Num(BaseLastSeen(n, t) - OffsetSec(Jitter(idx, i), w))]

(* oldest + ((i + 1) / steps) * (windowSec * 1000), as the exact quotient *)
SyntheticTime(i, w, t) == (t - w) + ((i + 1) * w) \div SyntheticSteps

SyntheticSnapshots_Unflagged(ns, w, t) ==
    [k \in 1..SyntheticSteps |->
        [timestamp |-> SyntheticTime(k - 1, w, t),
         nodes |-> [p \in 1..Len(ns) |-> SyntheticNode(ns[p], p - 1, k - 1, w, t)],
         synthetic |-> FALSE]]

SyntheticSnapshots(ns, w, t) ==
    [k \in 1..SyntheticSteps |->
        [timestamp |-> SyntheticTime(k - 1, w, t),
         nodes |-> [p \in 1..Len(ns) |-> SyntheticNode(ns[p], p - 1, k - 1, w, t)],
         synthetic |-> TRUE]]

InWindow(s, w, t) == t - s.timestamp <= w

WindowSnapshots(snaps, w, t) ==
    SelectSeq2(snaps, [i \in 1..Len(snaps) |-> InWindow(snaps[i], w, t)])

LiveView(ns, hmap) ==
    [displayNodes |-> ns,
     displayHealthById |-> hmap,
     isSyntheticHistory |-> FALSE,
     availableSnapshots |-> <<>>,
     snap |-> <<>>]

(* healthById restricted to the ids of the shown roster; healthById itself  *)
(* when that is empty                                                       *)
DisplayHealth(ns, hmap) ==
    LET ids == {ns[i].pnodeId : i \in 1..Len(ns)} \cap DOMAIN hmap
    IN  IF ids = {} THEN hmap ELSE [id \in ids |-> hmap[id]]

(* the useMemo body; snap holds the snapshot the roster was taken from, if  *)
(* any                                                                      *)
TimeTravel_NoFallback(mode, index, snaps, ns, hmap, t) ==
    IF mode = "live" \/ Len(snaps) = 0
    THEN LiveView(ns, hmap)
    ELSE LET w == WindowSec(mode)
             real == WindowSnapshots(snaps, w, t)
             isSynthetic == Len(real) = 0
             window == IF isSynthetic THEN SyntheticSnapshots(ns, w, t) ELSE real
             clampedIndex == IF Len(window) > 0 THEN Min(index, Len(window) - 1) ELSE 0
             snap == IF clampedIndex \in 0..(Len(window) - 1)
                     THEN <<window[clampedIndex + 1]>>
                     ELSE <<>>
         IN  [displayNodes |-> IF snap # <<>> THEN snap[1].nodes ELSE ns,
              displayHealthById |->
                  IF snap # <<>> THEN DisplayHealth(snap[1].nodes, hmap) ELSE hmap,
              isSyntheticHistory |-> isSynthetic,
              availableSnapshots |-> window,
              snap |-> snap]

TimeTravel(mode, index, snaps, ns, hmap, t) ==
    IF mode = "live" \/ Len(snaps) = 0
    THEN LiveView(ns, hmap)
    ELSE LET w == WindowSec(mode)
             real == WindowSnapshots(snaps, w, t)
             isSynthetic == Len(real) = 0
             window == IF isSynthetic THEN SyntheticSnapshots(ns, w, t) ELSE real
             clampedIndex == IF Len(window) > 0 THEN Min(index, Len(window) - 1) ELSE 0
             snap == IF clampedIndex \in 0..(Len(window) - 1)
                     THEN <<window[clampedIndex + 1]>>
                     ELSE IF Len(window) > 0 THEN <<window[1]>> ELSE <<>>
         IN  [displayNodes |-> IF snap # <<>> THEN snap[1].nodes ELSE ns,
              displayHealthById |->
                  IF snap # <<>> THEN DisplayHealth(snap[1].nodes, hmap) ELSE hmap,
              isSyntheticHistory |-> isSynthetic,
              availableSnapshots |-> window,
              snap |-> snap]

ReputationFilters == {"all", "gold", "silver", "risky"}

PassesFilter(n, repMap, filter) ==
    \/ filter = "all"
    \/ n.pnodeId \in DOMAIN repMap /\ repMap[n.pnodeId].tier = filter

(* the comparator orders online before unknown before any other status and  *)
(* Array.prototype.sort is stable                                           *)
SortByStatus(ns) ==
    SelectSeq2(ns, [i \in 1..Len(ns) |-> ns[i].status = "online"])
    \o SelectSeq2(ns, [i \in 1..Len(ns) |-> ns[i].status = "unknown"])
    \o SelectSeq2(ns, [i \in 1..Len(ns) |-> ns[i].status \notin {"online", "unknown"}])

(* [...displayNodes].filter(...).sort(...) *)
OrderedNodes(ns, repMap, filter) ==
    SortByStatus(SelectSeq2(ns, [i \in 1..Len(ns) |-> PassesFilter(ns[i], repMap, filter)]))

-----------------------------------------------------------------------------
(* Nodes (types.ts and the optional telemetry of the data model) *)

Statuses == {"online", "unknown", "offline"}

Ids == <<"n1", "n2", "n3", "n4", "n5", "n6", "n7", "n8", "n9">>

NoTelemetry ==
    [peers |-> Undef, diversity |-> Undef, latency |-> Undef,
     uptime |-> Undef, data |-> Undef, vfresh |-> Undef]

(* A node record.  tel gives one value per optional signal and spelling     *)
(* says under which of its accepted key spellings each value is stored:     *)
(* 1, 2, 3 the first, second, third spelling (the last one when a signal    *)
(* has fewer), 4 the second spelling with a numeric zero under the third.   *)
MkNode(id, lat, lon, status, storage, lastSeen, tel, spelling) ==
    [pnodeId |-> id, latitude |-> lat, longitude |-> lon, status |-> status,
     storageUsed |-> storage, version |-> "1.0", lastSeen |-> lastSeen,
     peers_seen |-> IF spelling = 1 THEN tel.peers ELSE Undef,
     peersSeen |-> IF spelling # 1 THEN tel.peers ELSE Undef,
     peer_diversity |-> IF spelling = 1 THEN tel.diversity ELSE Undef,
     peerDiversity |-> IF spelling # 1 THEN tel.diversity ELSE Undef,
     response_latency |-> IF spelling = 1 THEN tel.latency ELSE Undef,
     responseLatency |-> IF spelling # 1 THEN tel.latency ELSE Undef,
     uptime |-> IF spelling = 1 THEN tel.uptime ELSE Undef,
     uptime_ratio |-> IF spelling \in {2, 4} THEN tel.uptime ELSE Undef,
     uptimeRatio |-> IF spelling = 3 THEN tel.uptime
                     ELSE IF spelling = 4 THEN Num(0) ELSE Undef,
     data_availability |-> IF spelling = 1 THEN tel.data ELSE Undef,
     dataAvailability |-> IF spelling \in {2, 4} THEN tel.data ELSE Undef,
     dataAvailabilityRatio |-> IF spelling = 3 THEN tel.data
                               ELSE IF spelling = 4 THEN Num(0) ELSE Undef,
     version_freshness |-> tel.vfresh]

-----------------------------------------------------------------------------
(* The scorers and the explainability generator applied to one node *)

Now0 == 10 * Horizon

PeerValues == {Undef, Num(2), Num(3), Str, Num(-5)}
DiversityValues == {Undef, Num(0), Num(Pct(30)), Str}
LatencyValues == {Undef, Num(351), Str}
UptimeValues == {Undef, Num(Pct(65)), Num(Pct(150)), Str}
DataValues == {Undef, Num(Pct(40)), Num(-Pct(50)), Str}
FreshValues == {Undef, Str}
LastSeenValues == {Num(Now0), Num(Now0 - 2 * Horizon), Str}
ScenarioLastSeen == LastSeenValues \cup {Num(Now0 - Horizon), Num(Now0 - Horizon - 1)}

TelemetryValues ==
    [peers : PeerValues, diversity : DiversityValues, latency : LatencyValues,
     uptime : UptimeValues, data : DataValues, vfresh : FreshValues]

(* the signals at their documented defaults, written out *)
NominalTelemetry ==
    [peers |-> Num(99), diversity |-> Num(Pct(50)), latency |-> Num(185),
     uptime |-> Num(Pct(80)), data |-> Num(Pct(90)), vfresh |-> Num(Pct(70))]

(* telemetry that puts a score on a tier boundary: health 0.4 (offline,     *)
(* stale) and 0.7 (online, stale), reputation 0.8 (health 0) and 0.5        *)
(* (health 0.5)                                                             *)
BoundaryTelemetry ==
    { [NoTelemetry EXCEPT !.peers = Num(0), !.data = Num(Pct(50))],
      [NoTelemetry EXCEPT !.peers = Num(99), !.data = Num(Pct(25))],
      [NoTelemetry EXCEPT !.latency = Num(50), !.uptime = Num(Pct(80)),
                          !.data = Num(Pct(80)), !.vfresh = Num(Pct(100))],
      [NoTelemetry EXCEPT !.latency = Num(50), !.uptime = Num(Pct(50)),
                          !.data = Num(Pct(50)), !.vfresh = Num(0)] }

ScenarioTelemetry ==
    { NoTelemetry,
      NominalTelemetry,
      [NoTelemetry EXCEPT !.peers = Num(0)],
      [NoTelemetry EXCEPT !.uptime = Num(Pct(65))],
      [NominalTelemetry EXCEPT !.uptime = Num(Pct(65))],
      [NominalTelemetry EXCEPT !.uptime = Num(Pct(70))],
      [NominalTelemetry EXCEPT !.latency = Num(350)],
      [NominalTelemetry EXCEPT !.diversity = Num(Pct(40))] } \cup BoundaryTelemetry

ScenarioNodes ==
    { MkNode("n1", 10, 20, st, 100, ls, tel, sp) :
        st \in Statuses, ls \in ScenarioLastSeen, tel \in ScenarioTelemetry, sp \in 1..4 }

ProductNodes ==
    { MkNode("n1", 10, 20, st, 100, ls, tel, 1) :
        st \in Statuses, ls \in LastSeenValues, tel \in TelemetryValues }

(* health results a caller may pass to computeReputation besides the node's own *)
OtherHealth ==
    { [score |-> Num(Pct(p)), tier |-> HealthTier(Num(Pct(p))), reasons |-> <<>>] :
        p \in {0, 50, 100} }

NoHealth == [score |-> Num(0), tier |-> "none", reasons |-> <<>>]
NoReputation == [score |-> Num(0), tier |-> "none"]
NoExplain == [why |-> <<>>, predictions |-> <<>>]
NoAnalysis ==
    [anomaliesById |-> NoAnomalies, partitionSuspected |-> FALSE,
     partitionReason |-> NullReason]
NoNode == MkNode("n1", 0, 0, "unknown", 0, Str, NoTelemetry, 1)

StatusReady == "Ready. Enter seed pNode endpoints to begin discovery."

(* the discovery page after its script has run, discoverPNodes not called *)
PageIdle ==
    /\ seedNodes = <<>>
    /\ gossip = <<>>
    /\ discovered = <<>>
    /\ seedText = <<>>
    /\ lastSeedList = <<>>
    /\ currentResults = <<>>
    /\ isBusy = FALSE
    /\ discoverDisabled = FALSE
    /\ refreshDisabled = TRUE
    /\ statusText = StatusReady
    /\ running = <<>>

HookIdle ==
    /\ nodes = <<>>
    /\ loading = TRUE
    /\ error = "null"
    /\ healthById = <<>>
    /\ reputationById = <<>>
    /\ networkHealth = Num(0)
    /\ snapshots = <<>>
    /\ failures = NoAnalysis
    /\ regionStats = <<>>
    /\ effect = [gen |-> 0, live |-> FALSE, snapshots |-> <<>>]
    /\ inflight = {}
    /\ started = 0
    /\ ingested = <<>>

(* App after its first render: live mode, no filter *)
ViewIdle ==
    /\ timeMode = "live"
    /\ timeIndex = 0
    /\ reputationFilter = "all"
    /\ view = LiveView(<<>>, <<>>)
    /\ orderedNodes = <<>>

ScoreIdle ==
    /\ argNode = NoNode
    /\ argHealth = NoHealth
    /\ argRoster = <<>>
    /\ health = NoHealth
    /\ reputation = NoReputation
    /\ netHealth = Num(0)
    /\ explain = NoExplain

DetectIdle ==
    /\ argSnapshots = <<>>
    /\ argCurrent = <<>>
    /\ analysis = NoAnalysis

NominalNode == MkNode("n2", 40, -70, "online", 100, Num(Now0), NominalTelemetry, 1)

(* the rosters computeNetworkHealth is applied to *)
RosterArgs(n) ==
    IF n \in ScenarioNodes
    THEN {<<>>, <<n>>, <<n, NominalNode>>, <<NominalNode, n, NominalNode>>}
    ELSE {<<n, NominalNode>>}

InitScore ==
    /\ PageIdle
    /\ HookIdle
    /\ ViewIdle
    /\ DetectIdle
    /\ now = Now0
    /\ pc = "node"
    /\ argNode \in ProductNodes \cup ScenarioNodes
    /\ argHealth = NoHealth
    /\ argRoster = <<>>
    /\ health = NoHealth
    /\ reputation = NoReputation
    /\ netHealth = Num(0)
    /\ explain = NoExplain

ComputeNodeHealth ==
    /\ pc = "node"
    /\ health' = computeNodeHealth(argNode, now)
    /\ pc' = "health"
    /\ UNCHANGED <<pageVars, hookVars, viewVars, now, detectVars, argNode, argHealth, argRoster,
                   reputation, netHealth, explain>>

ComputeNetworkHealth ==
    /\ pc = "node"
    /\ \E r \in RosterArgs(argNode) :
          /\ argRoster' = r
          /\ netHealth' = computeNetworkHealth(r, now)
    /\ pc' = "network"
    /\ UNCHANGED <<pageVars, hookVars, viewVars, now, detectVars, argNode, argHealth, health,
                   reputation, explain>>

ComputeReputation ==
    /\ pc = "health"
    /\ \E h \in {health} \cup (IF argNode \in ScenarioNodes THEN OtherHealth ELSE {}) :
          /\ argHealth' = h
          /\ reputation' = computeReputation(argNode, h)
    /\ pc' = "reputation"
    /\ UNCHANGED <<pageVars, hookVars, viewVars, now, detectVars, argNode, argRoster, health,
                   netHealth, explain>>

(* the failure analysis of the one-node roster, with no history *)
AnalyzeNode ==
    /\ pc = "reputation"
    /\ argSnapshots' = <<>>
    /\ argCurrent' = <<argNode>>
    /\ analysis' = analyzeFailures(<<>>, <<argNode>>, now)
    /\ pc' = "analysed"
    /\ UNCHANGED <<pageVars, hookVars, viewVars, now, scoreVars>>

BuildNodeExplainability ==
    /\ pc = "analysed"
    /\ explain' = buildNodeExplainability(argNode, <<argHealth>>, <<reputation>>,
                                          analysis, argSnapshots, argCurrent, now)
    /\ pc' = "explained"
    /\ UNCHANGED <<pageVars, hookVars, viewVars, now, detectVars, argNode, argHealth, argRoster,
                   health, reputation, netHealth>>

NextScore ==
    \/ ComputeNodeHealth
    \/ ComputeNetworkHealth
    \/ ComputeReputation
    \/ AnalyzeNode
    \/ BuildNodeExplainability

SpecScore == InitScore /\ [][NextScore]_vars

-----------------------------------------------------------------------------
(* Properties of the scorers *)

InUnit(x) == x.t = "num" /\ 0 <= x.v /\ x.v <= One

HealthDone == pc \in {"health", "reputation", "analysed", "explained"}
ReputationDone == pc \in {"reputation", "analysed", "explained"}

(* C6: whatever the telemetry (missing, non-numeric, negative, above 1) and *)
(* whatever lastSeen, computeNodeHealth and computeReputation return a      *)
(* score that is a number in [0,1], and computeNetworkHealth returns a      *)
(* number in [0,1], 0 for the empty roster.                                 *)
C6_ScoresInUnitInterval ==
    /\ HealthDone => InUnit(health.score)
    /\ ReputationDone => InUnit(reputation.score)
    /\ pc = "network" => /\ InUnit(netHealth)
                         /\ argRoster = <<>> => netHealth = Num(0)

C6_Witness ==
    /\ pc = "reputation"
    /\ argHealth = health
    /\ argNode.lastSeen = Str
    /\ argNode.peers_seen = Str
    /\ UptimeOf(argNode) = Num(Pct(150))
    /\ DataAvailabilityOf(argNode) = Num(-Pct(50))
    /\ argNode.version_freshness = Str
    /\ reputation.score = Num(0)

(* C7: the tier is a function of the returned score with the documented    *)
(* thresholds: health bad below 0.4, warning from 0.4 and below 0.7, good   *)
(* from 0.7; reputation gold from 0.8, risky below 0.5, silver between.     *)
C7_TiersFollowScore ==
    /\ HealthDone =>
          /\ health.tier = "bad" <=> health.score.v < Pct(40)
          /\ health.tier = "warning" <=>
                (Pct(40) <= health.score.v /\ health.score.v < Pct(70))
          /\ health.tier = "good" <=> health.score.v >= Pct(70)
    /\ ReputationDone =>
          /\ reputation.tier = "gold" <=> reputation.score.v >= Pct(80)
          /\ reputation.tier = "risky" <=> reputation.score.v < Pct(50)
          /\ reputation.tier = "silver" <=>
                (Pct(50) <= reputation.score.v /\ reputation.score.v < Pct(80))

C7_Witness ==
    /\ pc = "reputation"
    /\ health.score = Num(Pct(40))
    /\ health.tier = "warning"
    /\ reputation.score = Num(Pct(50))
    /\ reputation.tier = "silver"

C7_WitnessUpper ==
    \/ pc = "health" /\ health.score = Num(Pct(70)) /\ health.tier = "good"
    \/ pc = "reputation" /\ reputation.score = Num(Pct(80)) /\ reputation.tier = "gold"

(* the node of the scenario: offline, last seen 20 minutes ago, peers-seen  *)
(* 0, every other optional signal absent                                    *)
IsStaleLonelyNode(n) ==
    /\ n.status = "offline"
    /\ n.lastSeen = Num(now - 20 * 60)
    /\ PeersSeenOf(n) = Num(0)
    /\ Num(0) \in {n.peers_seen, n.peersSeen}
    /\ n.peer_diversity = Undef /\ n.peerDiversity = Undef
    /\ ResponseLatencyOf(n) = Undef
    /\ UptimeOf(n) = Undef
    /\ DataAvailabilityOf(n) = Undef
    /\ n.version_freshness = Undef

HasBlackHole(fa, id) == "black_hole" \in Range(TagsOf(fa.anomaliesById, id))

(* C8 as stated: that node gets tier bad, the low-peer and the stale        *)
(* reasons, and the black_hole tag.                                         *)
C8_TierBad ==
    (pc = "explained" /\ IsStaleLonelyNode(argNode)) =>
        /\ health.tier = "bad"
        /\ ReasonPeers \in Range(health.reasons)
        /\ ReasonStale \in Range(health.reasons)
        /\ HasBlackHole(analysis, argNode.pnodeId)

(* C8, amended: that node scores 0.44 (0.05 status + 0.075 diversity +      *)
(* 0.105 latency + 0.12 uptime + 0.09 availability), hence tier warning;    *)
(* its reasons include the low-peer and the stale reason and                *)
(* analyzeFailures tags it black_hole.                                      *)
C8_TierWarning ==
    (pc = "explained" /\ IsStaleLonelyNode(argNode)) =>
        /\ health.score = Num(Pct(44))
        /\ health.tier = "warning"
        /\ ReasonPeers \in Range(health.reasons)
        /\ ReasonStale \in Range(health.reasons)
        /\ HasBlackHole(analysis, argNode.pnodeId)

C8_Witness ==
    /\ pc = "explained"
    /\ IsStaleLonelyNode(argNode)
    /\ argCurrent = <<argNode>>
    /\ health.reasons = <<ReasonPeers, ReasonStale>>

(* the node of the scenario: uptime 0.65, the other signals read by the     *)
(* reputation blend absent or at their defaults                             *)
IsLowUptimeNode(n) ==
    /\ UptimeOf(n) = Num(Pct(65))
    /\ DataAvailabilityOf(n) \in {Undef, Num(Pct(90))}
    /\ ResponseLatencyOf(n) \in {Undef, Num(185)}
    /\ n.version_freshness \in {Undef, Num(Pct(70))}

(* C9: a node with uptime 0.65 and nominal signals otherwise has reputation *)
(* tier silver and a score strictly between 0.5 and 0.8 for every health    *)
(* score in [0,1], and its explainability holds the high-confidence         *)
(* low-uptime prediction.                                                   *)
C9_LowUptimeSilver ==
    /\ (ReputationDone /\ IsLowUptimeNode(argNode)) =>
          /\ reputation.tier = "silver"
          /\ Pct(50) < reputation.score.v
          /\ reputation.score.v < Pct(80)
    /\ (pc = "explained" /\ IsLowUptimeNode(argNode)) =>
          \E i \in 1..Len(explain.predictions) :
              /\ explain.predictions[i] = PredictUptime
              /\ explain.predictions[i].confidence = "high"

C9_Witness ==
    /\ pc = "explained"
    /\ IsLowUptimeNode(argNode)
    /\ argNode.uptime_ratio = Num(Pct(65))
    /\ argHealth.score = Num(One)
    /\ reputation.score = Num(Pct(71) + Pct(6) + Pct(1) \div 20)
    /\ explain.predictions = <<PredictUptime>>

-----------------------------------------------------------------------------
(* buildNodeExplainability applied to arbitrary arguments *)

(* the inspected node with a small or a large store, and two peers *)
ExplainNode(st, storage) ==
    MkNode("n1", 10, 20, st, storage, Num(Now0 - 30), NominalTelemetry, 1)
ExplainPeer(i) ==
    MkNode(Ids[i], 10, 20, "online", 100, Num(Now0 - 30), NominalTelemetry, 1)

ExplainTags ==
    { <<>>, <<"sudden_drop">>, <<"isolated", "black_hole">>,
      <<"sudden_drop", "isolated", "black_hole">>, <<"black_hole", "black_hole">> }

(* reasons lists a HealthDetails may carry: those of computeNodeHealth, a   *)
(* list with a repetition, and lists holding a sentence that                *)
(* buildNodeExplainability itself writes                                    *)
ExplainReasons ==
    { <<>>, <<ReasonHealthy>>, <<ReasonPeers, ReasonStale>>, <<ReasonPeers, ReasonPeers>>,
      <<WhyOffline, ReasonUptime>>, <<WhySilver>>, <<ReasonData, WhyStorage>> }

ExplainTiers == {"none", "gold", "silver", "risky"}

(* tier "none" stands for an argument that is not passed *)
Optional(x) == IF x.tier = "none" THEN <<>> ELSE <<x>>

InitExplain ==
    /\ PageIdle
    /\ HookIdle
    /\ ViewIdle
    /\ now = Now0
    /\ pc = "why-input"
    /\ \E st \in Statuses, storage \in {100, 400} :
          /\ argNode = ExplainNode(st, storage)
          /\ argCurrent = <<ExplainPeer(2), argNode, ExplainPeer(3)>>
    /\ \E tags \in ExplainTags :
          analysis = [anomaliesById |-> [id \in {"n1"} |-> tags],
                      partitionSuspected |-> FALSE,
                      partitionReason |-> NullReason]
    /\ \/ argHealth = NoHealth
       \/ \E rs \in ExplainReasons :
             argHealth = [score |-> Num(Pct(50)), tier |-> "warning", reasons |-> rs]
    /\ \E tier \in ExplainTiers :
          reputation = [score |-> Num(Pct(50)), tier |-> tier]
    /\ argSnapshots = <<>>
    /\ argRoster = <<>>
    /\ health = NoHealth
    /\ netHealth = Num(0)
    /\ explain = NoExplain

ExplainArguments ==
    /\ pc = "why-input"
    /\ explain' = buildNodeExplainability(argNode, Optional(argHealth), Optional(reputation),
                                          analysis, argSnapshots, argCurrent, now)
    /\ pc' = "why-done"
    /\ UNCHANGED <<pageVars, hookVars, viewVars, now, detectVars, argNode, argHealth, argRoster,
                   health, reputation, netHealth>>

NextExplain == ExplainArguments

SpecExplain == InitExplain /\ [][NextExplain]_vars

NoTwoEqual(s) == \A i, j \in 1..Len(s) : s[i] = s[j] => i = j

OwnSentences == {WhyGold, WhySilver, WhyRisky, WhyStorage}

C16_WitnessRepeated ==
    /\ pc = "why-done"
    /\ argHealth.reasons = <<ReasonPeers, ReasonPeers>>
    /\ Len(explain.why) = 2

-----------------------------------------------------------------------------
(* analyzeFailures applied to a snapshot list and a current roster *)

MaxNodes == 6

Snapshot(t, ns) == [timestamp |-> t, nodes |-> ns, synthetic |-> FALSE]

(* telemetry by position in the roster: well connected, nothing reported,   *)
(* well connected but stale                                                 *)
PlainTelemetry == [NoTelemetry EXCEPT !.peers = Num(9)]

(* the i-th node of a roster whose first k nodes lie in the cell 10:20 and  *)
(* whose other nodes lie in the cell 40:-70                                 *)
WideNode(i, k, st) ==
    MkNode(Ids[i],
           IF i <= k THEN (IF i % 2 = 0 THEN 8 ELSE 14) ELSE 40,
           IF i <= k THEN (IF i % 2 = 0 THEN 24 ELSE 16) ELSE -75,
           st, 100,
           IF i % 3 = 0 THEN Num(Now0 - 2 * TenMin) ELSE Num(Now0 - 30),
           IF i % 3 = 2 THEN NoTelemetry ELSE PlainTelemetry,
           1)

WideRoster(n, k, sts) == [i \in 1..n |-> WideNode(i, k, sts[i])]

WideSplits(n) == {0, MinRegionSize - 1, MinRegionSize, n} \cap 0..n

(* two full cells of MinRegionSize nodes, the first a of cell 10:20 and the *)
(* first b of cell 40:-70 offline                                           *)
TwoCellRoster(a, b) ==
    [i \in 1..(2 * MinRegionSize) |->
        LET j == IF i <= MinRegionSize THEN i ELSE i - MinRegionSize
            off == IF i <= MinRegionSize THEN j <= a ELSE j <= b
        IN  MkNode(Ids[j] \o (IF i <= MinRegionSize THEN "a" ELSE "b"),
                   IF i <= MinRegionSize THEN 12 ELSE 40,
                   IF i <= MinRegionSize THEN 20 ELSE -75,
                   IF off THEN "offline" ELSE "online", 100,
                   Num(Now0 - 30), PlainTelemetry, 1)]

CycleStatus(i) ==
    IF i % 3 = 1 THEN "online" ELSE IF i % 3 = 2 THEN "unknown" ELSE "offline"

(* earlier rosters over the ids n1 .. n(MaxNodes + 1) *)
AllOnlineRoster == [i \in 1..(MaxNodes + 1) |-> WideNode(i, 0, "online")]
CycleRoster == [i \in 1..(MaxNodes + 1) |-> WideNode(i, 0, CycleStatus(i))]

WideHistories(cur) ==
    { <<>>,
      <<Snapshot(3, cur)>>,
      <<Snapshot(2, AllOnlineRoster), Snapshot(3, cur)>>,
      <<Snapshot(2, CycleRoster), Snapshot(3, cur)>>,
      <<Snapshot(1, AllOnlineRoster), Snapshot(2, CycleRoster)>> }

(* small rosters with the signals the black-hole rule reads on both sides   *)
(* of its thresholds                                                        *)
NarrowTelemetry ==
    { [NoTelemetry EXCEPT !.peers = p, !.data = a] :
        p \in {Undef, Num(1), Num(2), Str},
        a \in {Undef, Num(Pct(49)), Num(Pct(50))} }

NarrowLastSeen == {Num(Now0 - TenMin), Num(Now0 - TenMin - 1), Num(Now0 + 60), Str}

(* n1 with those signals, alone or followed by n2 *)
NarrowRoster(st, ls, tel, sp, st2) ==
    LET x == MkNode("n1", 10, 20, st, 100, ls, tel, sp)
        y == MkNode("n2", 10, 20, st2, 100, Num(Now0 - 30), PlainTelemetry, 1)
    IN  IF st2 = "absent" THEN <<x>> ELSE <<x, y>>

(* an earlier roster over n1 .. n3, each absent or in the given status *)
NarrowPrevRoster(sts) ==
    SelectSeq2([i \in 1..3 |-> MkNode(Ids[i], 10, 20, sts[i], 100,
                                      Num(Now0 - 30), PlainTelemetry, 1)],
               [i \in 1..3 |-> sts[i] # "absent"])

OptStatuses == Statuses \cup {"absent"}

InitDetect ==
    /\ PageIdle
    /\ HookIdle
    /\ ViewIdle
    /\ ScoreIdle
    /\ now = Now0
    /\ pc = "input"
    /\ \/ \E n \in 0..MaxNodes : \E sts \in [1..n -> Statuses] : \E k \in WideSplits(n) :
             /\ argCurrent = WideRoster(n, k, sts)
             /\ argSnapshots \in WideHistories(argCurrent)
       \/ \E a \in {2, 3, 5}, b \in {0, 3} :
             /\ argCurrent = TwoCellRoster(a, b)
             /\ argSnapshots \in WideHistories(argCurrent)
       \/ \E st \in Statuses, ls \in NarrowLastSeen, tel \in NarrowTelemetry,
             sp \in {1, 2}, st2 \in OptStatuses :
             /\ argCurrent = NarrowRoster(st, ls, tel, sp, st2)
             /\ \E sts \in {f \in [1..3 -> OptStatuses] : f[2] = "online"} :
                   argSnapshots = <<Snapshot(2, NarrowPrevRoster(sts)),
                                    Snapshot(3, argCurrent)>>
    /\ analysis = NoAnalysis

AnalyzeFailures ==
    /\ pc = "input"
    /\ analysis' = analyzeFailures(argSnapshots, argCurrent, now)
    /\ pc' = "detected"
    /\ UNCHANGED <<pageVars, hookVars, viewVars, now, scoreVars, argSnapshots, argCurrent>>

NextDetect == AnalyzeFailures

SpecDetect == InitDetect /\ [][NextDetect]_vars

-----------------------------------------------------------------------------
(* Properties of analyzeFailures *)

Carries(fa, id, tag) == tag \in Range(TagsOf(fa.anomaliesById, id))

IdsOf(ns) == {ns[i].pnodeId : i \in 1..Len(ns)}

StatusIn(ns, id) ==
    IF \E i \in 1..Len(ns) : ns[i].pnodeId = id
    THEN (CHOOSE n \in Range(ns) : n.pnodeId = id).status
    ELSE "absent"

(* the list ends in (N, N+1) and the current roster is that of N+1 *)
EndsInPair ==
    /\ Len(argSnapshots) >= 2
    /\ argSnapshots[Len(argSnapshots)].nodes = argCurrent
    /\ argCurrent # <<>>

PrevRoster == argSnapshots[Len(argSnapshots) - 1].nodes

(* C3: over (N, N+1) an id carries sudden_drop exactly when its node is     *)
(* online in N and absent from or offline in N+1.                           *)
C3_SuddenDropIff ==
    (pc = "detected" /\ EndsInPair) =>
        \A id \in Range(Ids) \cup IdsOf(argCurrent) \cup IdsOf(PrevRoster) :
            Carries(analysis, id, "sudden_drop") <=>
                /\ StatusIn(PrevRoster, id) = "online"
                /\ StatusIn(argCurrent, id) \in {"absent", "offline"}

C3_Witness ==
    /\ pc = "detected"
    /\ EndsInPair
    /\ \E a, b, c, d \in Range(Ids) :
          /\ StatusIn(PrevRoster, a) = "online" /\ StatusIn(argCurrent, a) = "absent"
          /\ Carries(analysis, a, "sudden_drop")
          /\ StatusIn(PrevRoster, b) = "online" /\ StatusIn(argCurrent, b) = "offline"
          /\ Carries(analysis, b, "sudden_drop")
          /\ StatusIn(PrevRoster, c) = "online" /\ StatusIn(argCurrent, c) = "online"
          /\ ~Carries(analysis, c, "sudden_drop")
          /\ StatusIn(PrevRoster, d) = "offline" /\ StatusIn(argCurrent, d) = "offline"
          /\ ~Carries(analysis, d, "sudden_drop")

(* the nodes of the roster in the cell of node n, and the offline ones *)
CellSize(ns, n) ==
    Cardinality({i \in 1..Len(ns) : getRegionKey(ns[i]) = getRegionKey(n)})
CellOffline(ns, n) ==
    Cardinality({i \in 1..Len(ns) :
                    getRegionKey(ns[i]) = getRegionKey(n) /\ ns[i].status = "offline"})

(* C4: a node carries isolated exactly when its cell, counted over the      *)
(* current roster, has at least 5 nodes of which at least 60% are offline;  *)
(* no id outside the roster carries it.                                     *)
C4_IsolatedIff ==
    pc = "detected" =>
        /\ \A i \in 1..Len(argCurrent) :
              Carries(analysis, argCurrent[i].pnodeId, "isolated") <=>
                  /\ CellSize(argCurrent, argCurrent[i]) >= 5
                  /\ 10 * CellOffline(argCurrent, argCurrent[i])
                        >= 6 * CellSize(argCurrent, argCurrent[i])
        /\ \A id \in DOMAIN analysis.anomaliesById \ IdsOf(argCurrent) :
              ~Carries(analysis, id, "isolated")

C4_Witness ==
    /\ pc = "detected"
    /\ Len(argCurrent) = 6
    /\ CellSize(argCurrent, argCurrent[1]) = 5
    /\ CellOffline(argCurrent, argCurrent[1]) = 3
    /\ argCurrent[1].status = "online"
    /\ Carries(analysis, argCurrent[1].pnodeId, "isolated")
    /\ ~Carries(analysis, argCurrent[6].pnodeId, "isolated")

C4_WitnessBelow ==
    /\ pc = "detected"
    /\ CellSize(argCurrent, argCurrent[1]) = 5
    /\ CellOffline(argCurrent, argCurrent[1]) = 2
    /\ ~Carries(analysis, argCurrent[1].pnodeId, "isolated")

C4_WitnessSmall ==
    /\ pc = "detected"
    /\ CellSize(argCurrent, argCurrent[1]) = 4
    /\ CellOffline(argCurrent, argCurrent[1]) = 4
    /\ ~Carries(analysis, argCurrent[1].pnodeId, "isolated")

IsolatedCells(ns) ==
    { getRegionKey(ns[i]) : i \in {j \in 1..Len(ns) :
                                     /\ CellSize(ns, ns[j]) >= 5
                                     /\ 10 * CellOffline(ns, ns[j]) >= 6 * CellSize(ns, ns[j])} }

DropCount == Cardinality({id \in DOMAIN analysis.anomaliesById :
                             Carries(analysis, id, "sudden_drop")})
OfflineCount == Cardinality({i \in 1..Len(argCurrent) : argCurrent[i].status = "offline"})
OnlineCount == Cardinality({i \in 1..Len(argCurrent) : argCurrent[i].status = "online"})

(* C5: on a non-empty roster the verdict is the first matching rule:        *)
(* isolated cells (reason naming exactly those cells), else sudden drops    *)
(* above 0.2 of the roster size, else more offline than online nodes, else  *)
(* no suspicion and no reason.                                              *)
C5_VerdictPriority ==
    (pc = "detected" /\ argCurrent # <<>>) =>
        LET r == analysis.partitionReason
        IN  IF IsolatedCells(argCurrent) # {}
            THEN /\ analysis.partitionSuspected
                 /\ r.text = "Region outage or isolation in "
                 /\ Range(r.regions) = IsolatedCells(argCurrent)
                 /\ Len(r.regions) = Cardinality(IsolatedCells(argCurrent))
            ELSE IF 10 * DropCount > 2 * Len(argCurrent)
            THEN analysis.partitionSuspected /\ r = DropReason
            ELSE IF OfflineCount > OnlineCount
            THEN analysis.partitionSuspected /\ r = MajorityReason
            ELSE ~analysis.partitionSuspected /\ r = NullReason

(* an isolated cell together with many sudden drops and an offline majority *)
C5_Witness ==
    /\ pc = "detected"
    /\ IsolatedCells(argCurrent) = {<<10, 20>>}
    /\ Len(argCurrent) = 6
    /\ 10 * DropCount > 2 * Len(argCurrent)
    /\ OfflineCount > OnlineCount
    /\ analysis.partitionReason = RegionReason(<< <<10, 20>> >>)

C5_WitnessTwoCells ==
    /\ pc = "detected"
    /\ analysis.partitionReason = RegionReason(<< <<10, 20>>, <<40, -70>> >>)

C5_WitnessDrops ==
    /\ pc = "detected"
    /\ OfflineCount > OnlineCount
    /\ analysis.partitionReason = DropReason

C5_WitnessMajority ==
    /\ pc = "detected"
    /\ DropCount > 0
    /\ analysis.partitionReason = MajorityReason

(* the black-hole conditions on the raw fields of a node: an unparseable    *)
(* lastSeen is an infinite age and an unreported peers-seen a count of 0    *)
FirstReported(xs) == Coalesce(xs, Undef)

AgeExceedsTenMinutes(n) == n.lastSeen.t # "num" \/ now - n.lastSeen.v > 600
PeersBelowTwo(n) ==
    LET p == FirstReported(<<n.peers_seen, n.peersSeen>>)
    IN  p = Undef \/ (p.t = "num" /\ p.v < 2)
AvailabilityBelowHalf(n) ==
    LET a == FirstReported(<<n.data_availability, n.dataAvailability,
                             n.dataAvailabilityRatio>>)
    IN  a.t = "num" /\ 2 * a.v < One

C10_WitnessTagged ==
    /\ pc = "detected"
    /\ \E i \in 1..Len(argCurrent) :
          /\ argCurrent[i].status = "online"
          /\ TagsOf(analysis.anomaliesById, argCurrent[i].pnodeId)
                = <<"isolated", "black_hole">>
          /\ ~PeersBelowTwo(argCurrent[i])


(* C11: partitionSuspected is true exactly when partitionReason is not      *)
(* null, and the returned reason is never one of the probable-cause         *)
(* fallbacks (version skew, latency instability).                           *)
C11_SuspectedIffReason ==
    pc = "detected" =>
        /\ analysis.partitionSuspected <=> analysis.partitionReason # NullReason
        /\ analysis.partitionReason.text
              \notin {InstabilityReason.text, SkewReason("v").text}

C11_Witness ==
    /\ pc = "detected"
    /\ analysis.partitionSuspected
    /\ analysis.partitionReason = MajorityReason
    /\ \E i \in 1..Len(argCurrent) : argCurrent[i].status = "online"

(* C12: on an empty current roster the analysis has no anomalies, no        *)
(* suspicion and no reason, whatever the snapshot list holds.               *)
C12_EmptyRosterEmptyAnalysis ==
    (pc = "detected" /\ argCurrent = <<>>) =>
        /\ DOMAIN analysis.anomaliesById = {}
        /\ analysis.partitionSuspected = FALSE
        /\ analysis.partitionReason = NullReason

C12_Witness ==
    /\ pc = "detected"
    /\ argCurrent = <<>>
    /\ Len(argSnapshots) >= 2
    /\ PrevRoster # <<>>
    /\ \A i \in 1..Len(PrevRoster) : PrevRoster[i].status = "online"
    /\ analysis = EmptyAnalysis

UnchangedHistory(ns) == <<Snapshot(2, ns), Snapshot(3, ns)>>

(* C13: with fewer than two snapshots no id carries sudden_drop, the        *)
(* isolated and black_hole tags follow their rules on the current roster,   *)
(* the verdict is rule 1 (isolated cells), else rule 3 (offline majority),  *)
(* else none, and the whole result equals the one computed with a history   *)
(* in which no node changed.                                                *)
C13_ShortHistory ==
    (pc = "detected" /\ Len(argSnapshots) < 2) =>
        /\ \A id \in DOMAIN analysis.anomaliesById : ~Carries(analysis, id, "sudden_drop")
        /\ \A i \in 1..Len(argCurrent) :
              /\ Carries(analysis, argCurrent[i].pnodeId, "isolated")
                    <=> /\ CellSize(argCurrent, argCurrent[i]) >= 5
                        /\ 10 * CellOffline(argCurrent, argCurrent[i])
                              >= 6 * CellSize(argCurrent, argCurrent[i])
              /\ Carries(analysis, argCurrent[i].pnodeId, "black_hole")
                    <=> \/ AgeExceedsTenMinutes(argCurrent[i])
                        \/ PeersBelowTwo(argCurrent[i])
                        \/ AvailabilityBelowHalf(argCurrent[i])
        /\ IF argCurrent # <<>> /\ IsolatedCells(argCurrent) # {}
           THEN /\ analysis.partitionSuspected
                /\ analysis.partitionReason.text = RegionReason(<<>>).text
           ELSE IF OfflineCount > OnlineCount
           THEN /\ analysis.partitionSuspected
                /\ analysis.partitionReason = MajorityReason
           ELSE /\ ~analysis.partitionSuspected
                /\ analysis.partitionReason = NullReason
        /\ analysis = analyzeFailures(UnchangedHistory(argCurrent), argCurrent, now)

C13_Witness ==
    /\ pc = "detected"
    /\ Len(argSnapshots) = 1
    /\ \E i \in 1..Len(argCurrent) : Carries(analysis, argCurrent[i].pnodeId, "isolated")
    /\ \E i \in 1..Len(argCurrent) :
          /\ Carries(analysis, argCurrent[i].pnodeId, "black_hole")
          /\ ~Carries(analysis, argCurrent[i].pnodeId, "isolated")
    /\ analysis.partitionSuspected

C13_WitnessMajority ==
    /\ pc = "detected"
    /\ argSnapshots = <<>>
    /\ analysis.partitionReason = MajorityReason

-----------------------------------------------------------------------------
(* hooks.ts: usePNodeData *)

SnapshotCap == 500
PollSec == 30
MaxLoads == 3
MaxEffects == 2

HealthMap(data, t) ==
    [id \in IdsOf(data) |-> computeNodeHealth(GetById(data, id), t)]

ReputationMap(data, t) ==
    [id \in IdsOf(data) |->
        computeReputation(GetById(data, id), computeNodeHealth(GetById(data, id), t))]

AppendSnapshot_KeepOldest(prev, snap) ==
    SubSeq(Append(prev, snap), 1, Min(Len(prev) + 1, SnapshotCap))

(* [...prev, { timestamp: now, nodes: data }].slice(-500) *)
AppendSnapshot(prev, snap) == LastN(Append(prev, snap), SnapshotCap)

(* the rosters a fetch may return *)
HookNode(i, st) ==
    MkNode(Ids[i], 10, 20, st, 100, Num(Now0 - 30), PlainTelemetry, 1)

Rosters ==
    { <<HookNode(1, "online"), HookNode(2, "online")>>,
      <<HookNode(1, "offline"), HookNode(2, "online")>>,
      <<HookNode(2, "unknown")>>,
      <<>> }

(* the component after its first render: no effect has run yet *)
Init ==
    /\ PageIdle
    /\ HookIdle
    /\ ViewIdle
    /\ ScoreIdle
    /\ DetectIdle
    /\ now = Now0
    /\ pc = "hook"

NoHookChange == UNCHANGED <<pc, scoreVars, detectVars, pageVars>>

NoViewChange == UNCHANGED viewVars

Cancelled_SharedFlag(req) == ~effect.live

Cancelled(req) == ~effect.live \/ req.gen # effect.gen

(* load() up to its await: setLoading(true), setError(null), fetchPNodes() *)
StartLoad ==
    /\ loading' = TRUE
    /\ error' = "null"
    /\ started' = started + 1
    /\ inflight' = inflight \cup {[id |-> started + 1, gen |-> effect'.gen]}

(* the effect runs after the first render: its load closes over the         *)
(* snapshots of that render                                                 *)
Mount ==
    /\ effect.gen = 0
    /\ effect' = [gen |-> 1, live |-> TRUE, snapshots |-> snapshots]
    /\ StartLoad
    /\ UNCHANGED <<nodes, healthById, reputationById, networkHealth, snapshots,
                   failures, regionStats, ingested, now>>
    /\ NoHookChange
    /\ NoViewChange

(* setInterval(load, pollMs) fires *)
IntervalTick ==
    /\ effect.live
    /\ started < MaxLoads
    /\ now' = now + PollSec
    /\ effect' = effect
    /\ StartLoad
    /\ UNCHANGED <<nodes, healthById, reputationById, networkHealth, snapshots,
                   failures, regionStats, ingested>>
    /\ NoHookChange
    /\ NoViewChange

FetchResolve_RegionsOfPreviousRoster(req, data) ==
    /\ req \in inflight
    /\ inflight' = inflight \ {req}
    /\ IF Cancelled(req)
       THEN UNCHANGED <<nodes, healthById, reputationById, networkHealth, snapshots,
                        failures, regionStats, ingested, loading, view, orderedNodes>>
       ELSE /\ nodes' = data
            /\ healthById' = HealthMap(data, now)
            /\ reputationById' = ReputationMap(data, now)
            /\ networkHealth' = computeNetworkHealth(data, now)
            /\ snapshots' = AppendSnapshot(snapshots, Snapshot(now, data))
            /\ failures' = analyzeFailures(effect.snapshots, data, now)
            /\ regionStats' = computeRegionStats(nodes)
            /\ ingested' = Append(ingested, data)
            /\ loading' = FALSE
            (* the render that follows recomputes the two memos of App *)
            /\ view' = TimeTravel(timeMode, timeIndex, snapshots', nodes', healthById', now)
            /\ orderedNodes' = OrderedNodes(view'.displayNodes, reputationById',
                                            reputationFilter)
    /\ UNCHANGED <<error, effect, started, now, timeMode, timeIndex, reputationFilter>>
    /\ NoHookChange

(* fetchPNodes() resolves with a roster *)
FetchResolve(req, data) ==
    /\ req \in inflight
    /\ inflight' = inflight \ {req}
    /\ IF Cancelled(req)
       THEN UNCHANGED <<nodes, healthById, reputationById, networkHealth, snapshots,
                        failures, regionStats, ingested, loading, view, orderedNodes>>
       ELSE /\ nodes' = data
            /\ healthById' = HealthMap(data, now)
            /\ reputationById' = ReputationMap(data, now)
            /\ networkHealth' = computeNetworkHealth(data, now)
            /\ snapshots' = AppendSnapshot(snapshots, Snapshot(now, data))
            /\ failures' = analyzeFailures(effect.snapshots, data, now)
            /\ regionStats' = computeRegionStats(data)
            /\ ingested' = Append(ingested, data)
            /\ loading' = FALSE
            (* the render that follows recomputes the two memos of App *)
            /\ view' = TimeTravel(timeMode, timeIndex, snapshots', nodes', healthById', now)
            /\ orderedNodes' = OrderedNodes(view'.displayNodes, reputationById',
                                            reputationFilter)
    /\ UNCHANGED <<error, effect, started, now, timeMode, timeIndex, reputationFilter>>
    /\ NoHookChange

FetchReject_DropsRoster(req) ==
    /\ req \in inflight
    /\ inflight' = inflight \ {req}
    /\ IF Cancelled(req)
       THEN UNCHANGED <<error, loading, nodes>>
       ELSE error' = "Failed to fetch /api/pnodes" /\ loading' = FALSE /\ nodes' = <<>>
    /\ UNCHANGED <<healthById, reputationById, networkHealth, snapshots,
                   failures, regionStats, ingested, effect, started, now>>
    /\ NoHookChange
    /\ NoViewChange

(* fetchPNodes() rejects *)
FetchReject(req) ==
    /\ req \in inflight
    /\ inflight' = inflight \ {req}
    /\ IF Cancelled(req)
       THEN UNCHANGED <<error, loading>>
       ELSE error' = "Failed to fetch /api/pnodes" /\ loading' = FALSE
    /\ UNCHANGED <<nodes, healthById, reputationById, networkHealth, snapshots,
                   failures, regionStats, ingested, effect, started, now>>
    /\ NoHookChange
    /\ NoViewChange

(* pollMs changes: the cleanup of the old effect, then the effect again     *)
ChangePollMs ==
    /\ effect.live
    /\ effect.gen < MaxEffects
    /\ started < MaxLoads
    /\ effect' = [gen |-> effect.gen + 1, live |-> TRUE, snapshots |-> snapshots]
    /\ StartLoad
    /\ UNCHANGED <<nodes, healthById, reputationById, networkHealth, snapshots,
                   failures, regionStats, ingested, now>>
    /\ NoHookChange
    /\ NoViewChange

(* the component unmounts: cancelled = true, clearInterval(id) *)
Unmount ==
    /\ effect.live
    /\ effect' = [effect EXCEPT !.live = FALSE]
    /\ UNCHANGED <<nodes, loading, error, healthById, reputationById, networkHealth,
                   snapshots, failures, regionStats, inflight, started, ingested, now>>
    /\ NoHookChange
    /\ NoViewChange

Next ==
    \/ Mount
    \/ IntervalTick
    \/ \E req \in inflight : \E data \in Rosters : FetchResolve(req, data)
    \/ \E req \in inflight : FetchReject(req)
    \/ ChangePollMs
    \/ Unmount

Spec == Init /\ [][Next]_vars

-----------------------------------------------------------------------------
(* The snapshot store at capacity.  The hook after SnapshotCap - 1          *)
(* successful fetches, one per poll period, none in flight: fetch i         *)
(* returned StoreRoster(i) and resolved at Now0 + (i - 1) * PollSec.  The   *)
(* counter of started loads, which only bounds the exploration and numbers  *)
(* the requests in flight, counts from this state on.                       *)

StoreRoster(i) == <<HookNode(1, CycleStatus(i))>>

Prefill == SnapshotCap - 1

PrefillTime(i) == Now0 + (i - 1) * PollSec

StoreRosters == {StoreRoster(1), StoreRoster(2), <<>>}

InitStore ==
    /\ PageIdle
    /\ ScoreIdle
    /\ timeMode = "live"
    /\ timeIndex = 0
    /\ reputationFilter = "all"
    /\ view = LiveView(StoreRoster(Prefill),
                       HealthMap(StoreRoster(Prefill), PrefillTime(Prefill)))
    /\ orderedNodes = OrderedNodes(StoreRoster(Prefill),
                                   ReputationMap(StoreRoster(Prefill), PrefillTime(Prefill)),
                                   "all")
    /\ DetectIdle
    /\ pc = "hook"
    /\ now = PrefillTime(Prefill)
    /\ nodes = StoreRoster(Prefill)
    /\ loading = FALSE
    /\ error = "null"
    /\ healthById = HealthMap(StoreRoster(Prefill), PrefillTime(Prefill))
    /\ reputationById = ReputationMap(StoreRoster(Prefill), PrefillTime(Prefill))
    /\ networkHealth = computeNetworkHealth(StoreRoster(Prefill), PrefillTime(Prefill))
    /\ snapshots = [i \in 1..Prefill |-> Snapshot(PrefillTime(i), StoreRoster(i))]
    /\ failures = analyzeFailures(<<>>, StoreRoster(Prefill), PrefillTime(Prefill))
    /\ regionStats = computeRegionStats(StoreRoster(Prefill))
    /\ effect = [gen |-> 1, live |-> TRUE, snapshots |-> <<>>]
    /\ inflight = {}
    /\ started = 0
    /\ ingested = [i \in 1..Prefill |-> StoreRoster(i)]

NextStore ==
    \/ IntervalTick
    \/ \E req \in inflight : \E data \in StoreRosters : FetchResolve(req, data)
    \/ \E req \in inflight : FetchReject(req)

SpecStore == InitStore /\ [][NextStore]_vars

-----------------------------------------------------------------------------
(* App: the hook together with the time-travel view, the display ordering   *)
(* and the inspection of a node                                             *)

ViewNode(i, st, ls) == MkNode(Ids[i], 10, 20, st, 100, ls, PlainTelemetry, 1)

ViewRosters ==
    { <<ViewNode(1, "offline", Num(Now0 - 30)), ViewNode(2, "online", Num(Now0 - 30)),
        ViewNode(3, "unknown", Str)>>,
      <<>> }

TimeIndexes == {0, SyntheticSteps}

OutageSecs == {WindowSec("1h") + 1, WindowSec("7d") + 1}

SelectTime_InPlace(mode, index) ==
    /\ <<mode, index>> # <<timeMode, timeIndex>>
    /\ timeMode' = mode
    /\ timeIndex' = index
    /\ view' = TimeTravel(mode, index, snapshots, nodes, healthById, now)
    /\ orderedNodes' = OrderedNodes(view'.displayNodes, reputationById, reputationFilter)
    /\ nodes' = view'.displayNodes
    /\ UNCHANGED <<loading, error, healthById, reputationById, networkHealth,
                   snapshots, failures, regionStats, effect, inflight, started,
                   ingested, reputationFilter, now>>
    /\ NoHookChange

(* setTimeMode / setTimeIndex, and the render that follows *)
SelectTime(mode, index) ==
    /\ <<mode, index>> # <<timeMode, timeIndex>>
    /\ timeMode' = mode
    /\ timeIndex' = index
    /\ view' = TimeTravel(mode, index, snapshots, nodes, healthById, now)
    /\ orderedNodes' = OrderedNodes(view'.displayNodes, reputationById, reputationFilter)
    /\ UNCHANGED <<hookVars, reputationFilter, now>>
    /\ NoHookChange

(* setReputationFilter, and the render that follows *)
SetReputationFilter(filter) ==
    /\ filter # reputationFilter
    /\ reputationFilter' = filter
    /\ orderedNodes' = OrderedNodes(view.displayNodes, reputationById, filter)
    /\ UNCHANGED <<hookVars, timeMode, timeIndex, view, now>>
    /\ NoHookChange

(* a node of the globe is hovered or selected: buildNodeExplainability on   *)
(* it with the hook's maps, analysis, store and roster                      *)
Inspect(i) ==
    /\ i \in 1..Len(orderedNodes)
    /\ LET n == orderedNodes[i]
           id == n.pnodeId
       IN  explain' = buildNodeExplainability(
                             n,
                             IF id \in DOMAIN healthById THEN <<healthById[id]>> ELSE <<>>,
                             IF id \in DOMAIN reputationById
                             THEN <<reputationById[id]>> ELSE <<>>,
                             failures, snapshots, nodes, now)
    /\ UNCHANGED <<pageVars, hookVars, viewVars, now, pc, detectVars,
                   argNode, argHealth, argRoster, health, reputation, netHealth>>

(* every poll of a period of d seconds fails: its interval ticks and        *)
(* rejections, taken as one step                                            *)
Outage(d) ==
    /\ effect.live
    /\ inflight = {}
    /\ now < Now0 + WindowSec("1h")
    /\ now' = now + d
    /\ error' = "Failed to fetch /api/pnodes"
    /\ loading' = FALSE
    /\ UNCHANGED <<nodes, healthById, reputationById, networkHealth, snapshots,
                   failures, regionStats, effect, inflight, started, ingested>>
    /\ NoHookChange
    /\ NoViewChange

(* the fetches of the view specification answer within the poll period,    *)
(* and fail only in an outage                                               *)
NextView ==
    \/ Mount
    \/ inflight = {} /\ IntervalTick
    \/ \E req \in inflight : \E data \in ViewRosters : FetchResolve(req, data)
    \/ \E d \in OutageSecs : Outage(d)
    \/ \E mode \in TimeModes : \E index \in TimeIndexes : SelectTime(mode, index)
    \/ \E filter \in {"all", "gold"} : SetReputationFilter(filter)
    \/ \E i \in {1, 3} : Inspect(i)

SpecView == Init /\ [][NextView]_vars

-----------------------------------------------------------------------------
(* Properties of the hook *)

(* C1: the store holds at most 500 snapshots, and they are the rosters of   *)
(* the most recent min(k, 500) of the k successful fetches, in arrival      *)
(* order; an append to a full store therefore drops the oldest entry only.  *)
C1_StoreKeepsLatest ==
    /\ Len(snapshots) <= 500
    /\ Len(snapshots) = Min(Len(ingested), 500)
    /\ \A i \in 1..Len(snapshots) :
          snapshots[i].nodes = ingested[Len(ingested) - Len(snapshots) + i]
    /\ \A i \in 1..(Len(snapshots) - 1) :
          snapshots[i].timestamp <= snapshots[i + 1].timestamp

C1_Witness ==
    /\ Len(ingested) = 502
    /\ Len(snapshots) = 500
    /\ snapshots[1] = Snapshot(PrefillTime(3), StoreRoster(3))
    /\ snapshots[500].nodes = ingested[502]
    /\ snapshots[499].nodes # snapshots[500].nodes

LastIngested == ingested[Len(ingested)]
PrecedingIngested == ingested[Len(ingested) - 1]

(* C2: after every successful fetch but the first, every node online in     *)
(* the roster of the preceding successful fetch and offline in or absent    *)
(* from the new (non-empty) roster carries sudden_drop in the published     *)
(* failure analysis.                                                        *)
C2_PublishedOverConsecutivePair ==
    (Len(ingested) >= 2 /\ LastIngested # <<>>) =>
        \A id \in IdsOf(PrecedingIngested) :
            ( /\ StatusIn(PrecedingIngested, id) = "online"
              /\ StatusIn(LastIngested, id) \in {"absent", "offline"} )
            => Carries(failures, id, "sudden_drop")

FetchError == "Failed to fetch /api/pnodes"

(* a step in which a request of the live effect ends without a roster *)
LiveFetchFailed ==
    \E req \in inflight :
        /\ ~Cancelled(req)
        /\ inflight' = inflight \ {req}
        /\ ingested' = ingested

(* a step in which a roster is ingested *)
FetchSucceeded == Len(ingested') = Len(ingested) + 1

(* a step in which a load starts *)
LoadStarted == started' = started + 1

DataRetained ==
    UNCHANGED <<nodes, healthById, reputationById, snapshots, failures, regionStats>>

(* C18 as stated: a failing fetch of the live effect sets the error field   *)
(* and leaves roster, maps, store, analysis and region statistics as the    *)
(* last successful fetch left them, and a successful fetch leaves the error *)
(* field cleared.                                                           *)
C18_FailureKeepsStateSuccessClears ==
    [][ /\ LiveFetchFailed => (error' = FetchError /\ DataRetained)
        /\ FetchSucceeded => error' = "null" ]_vars

(* C18, amended: a failing fetch of the live effect sets the error field    *)
(* and leaves roster, maps, store, analysis and region statistics as they   *)
(* were; the error is cleared when a load starts, and a successful fetch    *)
(* leaves the error field as it finds it.                                   *)
C18_FailureKeepsStateLoadClears ==
    [][ /\ LiveFetchFailed => (error' = FetchError /\ DataRetained)
        /\ LoadStarted => error' = "null"
        /\ FetchSucceeded => error' = error ]_vars

C18_Witness ==
    /\ error = FetchError
    /\ inflight = {}
    /\ Len(ingested) = 1
    /\ nodes = LastIngested
    /\ nodes # <<>>
    /\ snapshots # <<>>
    /\ started = 2

C18_WitnessStaleError ==
    /\ error = FetchError
    /\ inflight = {}
    /\ started = 2
    /\ Len(ingested) = 1
    /\ snapshots[1].timestamp = now


-----------------------------------------------------------------------------
(* Properties of the time-travel view *)

(* the memo is that of the current state and time *)
ViewCurrent == view = TimeTravel(timeMode, timeIndex, snapshots, nodes, healthById, now)

NoRealInWindow ==
    \A i \in 1..Len(snapshots) : now - snapshots[i].timestamp > WindowSec(timeMode)

TwelveSynthetic(window, w, t) ==
    /\ Len(window) = 12
    /\ \A k \in 1..Len(window) : window[k].synthetic = TRUE
    /\ \A k \in 1..(Len(window) - 1) : window[k].timestamp < window[k + 1].timestamp
    /\ window[1].timestamp > t - w
    /\ window[Len(window)].timestamp = t

(* C14: in a window mode (1h, 24h, 7d) with no stored snapshot inside the   *)
(* window, the store being empty included, the view offers exactly 12       *)
(* snapshots, all flagged synthetic, with strictly increasing timestamps,   *)
(* the first after the window start and the last at the window end.         *)
C14_TwelveSyntheticOnEmptyWindow ==
    (timeMode # "live" /\ ViewCurrent /\ NoRealInWindow) =>
        TwelveSynthetic(view.availableSnapshots, WindowSec(timeMode), now)

(* C15: the view reports synthetic history exactly when its roster is that  *)
(* of a synthesized snapshot; the store holds no snapshot flagged           *)
(* synthetic, the offered snapshots are all real entries of the store or    *)
(* all synthetic, and in live mode the flag is false and the roster is the  *)
(* fetched one.                                                             *)
C15_SyntheticIffSynthesized ==
    /\ \A i \in 1..Len(snapshots) : snapshots[i].synthetic = FALSE
    /\ \A k \in 1..Len(view.availableSnapshots) :
          /\ view.availableSnapshots[k].synthetic = view.isSyntheticHistory
          /\ ~view.isSyntheticHistory =>
                \E i \in 1..Len(snapshots) : snapshots[i] = view.availableSnapshots[k]
    /\ view.isSyntheticHistory <=> (view.snap # <<>> /\ view.snap[1].synthetic)
    /\ IF view.snap # <<>>
       THEN /\ view.displayNodes = view.snap[1].nodes
            /\ \E k \in 1..Len(view.availableSnapshots) :
                  view.availableSnapshots[k] = view.snap[1]
       ELSE view.displayNodes = nodes
    /\ timeMode = "live" =>
          /\ ~view.isSyntheticHistory
          /\ view.displayNodes = nodes
          /\ view.availableSnapshots = <<>>

C15_Witness ==
    /\ timeMode = "24h"
    /\ view.isSyntheticHistory
    /\ Len(snapshots) = 2
    /\ view.snap[1].synthetic
    /\ view.displayNodes # nodes
    /\ Len(view.displayNodes) = Len(nodes)

C15_WitnessReal ==
    /\ timeMode = "1h"
    /\ ~view.isSyntheticHistory
    /\ Len(view.availableSnapshots) = 2
    /\ view.snap = <<snapshots[2]>>

(* C17: the fetched roster and the stored snapshots are never written by    *)
(* the scorers, the detector, the aggregator, the explainability            *)
(* generator, the synthetic interpolation or the display ordering: the      *)
(* hook's roster is, record for record and in order, the roster of the last *)
(* successful fetch, every stored snapshot holds the roster of its fetch,   *)
(* and the display order is a separate list.                                *)
C17_RosterNeverModified ==
    /\ nodes = IF ingested = <<>> THEN <<>> ELSE LastIngested
    /\ Len(snapshots) = Len(ingested)
    /\ \A i \in 1..Len(snapshots) : snapshots[i].nodes = ingested[i]
    /\ timeMode = "live" => view.displayNodes = nodes
    /\ \A k \in 1..Len(view.availableSnapshots) :
          ~view.availableSnapshots[k].synthetic =>
              \E i \in 1..Len(ingested) : view.availableSnapshots[k].nodes = ingested[i]

C17_Witness ==
    /\ Len(ingested) = 2
    /\ nodes # <<>>
    /\ view.isSyntheticHistory
    /\ view.displayNodes # nodes
    /\ orderedNodes # view.displayNodes
    /\ explain # NoExplain
    /\ healthById # <<>>
    /\ failures.anomaliesById # <<>>

C17_WitnessLiveOrder ==
    /\ timeMode = "live"
    /\ reputationFilter = "all"
    /\ nodes # <<>>
    /\ orderedNodes # nodes
    /\ orderedNodes = SortByStatus(nodes)

-----------------------------------------------------------------------------
(* Properties of computeNodeHealth on single signals *)

UnparseableLastSeen(n) == n.lastSeen.t # "num"

(* C19: for a node whose lastSeen cannot be parsed, the health scorer gives *)
(* freshness 0 and the stale reason, the detector tags it black_hole, and   *)
(* the trend check of the explainability generator sees an infinite age.    *)
C19_UnparseableIsInfiniteAge ==
    (pc = "explained" /\ UnparseableLastSeen(argNode)) =>
        /\ FreshnessScore(argNode, now) = Num(0)
        /\ ReasonStale \in Range(health.reasons)
        /\ Carries(analysis, argNode.pnodeId, "black_hole")
        /\ TrendAges(argNode, <<Snapshot(now, <<argNode>>)>>, now) = <<PosInf>>

Reported(xs) == Coalesce(xs, Undef).t = "num"
ReportedValue(xs) == Coalesce(xs, Undef).v
IsRatio(xs) == Reported(xs) /\ ReportedValue(xs) \in 0..One

(* C20: a reason of computeNodeHealth is present exactly when its signal    *)
(* crosses its threshold: peers < 3, diversity < 0.4, latency > 350 ms,     *)
(* uptime < 0.8, availability < 0.8, age > 600 s, for every reported ratio  *)
(* in [0,1], 0 included.                                                    *)
C20_ReasonIffThreshold ==
    HealthDone =>
        LET n == argNode
            rs == Range(health.reasons)
            peers == <<n.peers_seen, n.peersSeen>>
            diversity == <<n.peer_diversity, n.peerDiversity>>
            latency == <<n.response_latency, n.responseLatency>>
            uptime == <<n.uptime, n.uptime_ratio, n.uptimeRatio>>
            data == <<n.data_availability, n.dataAvailability, n.dataAvailabilityRatio>>
        IN  /\ Reported(peers) => (ReasonPeers \in rs <=> ReportedValue(peers) < 3)
            /\ IsRatio(diversity) =>
                  (ReasonDiversity \in rs <=> ReportedValue(diversity) < Pct(40))
            /\ Reported(latency) => (ReasonLatency \in rs <=> ReportedValue(latency) > 350)
            /\ IsRatio(uptime) => (ReasonUptime \in rs <=> ReportedValue(uptime) < Pct(80))
            /\ IsRatio(data) => (ReasonData \in rs <=> ReportedValue(data) < Pct(80))
            /\ n.lastSeen.t = "num" => (ReasonStale \in rs <=> now - n.lastSeen.v > 600)

ThresholdReasons ==
    <<ReasonPeers, ReasonDiversity, ReasonLatency, ReasonUptime, ReasonData, ReasonStale>>

ThresholdRank(r) == CHOOSE k \in 1..Len(ThresholdReasons) : ThresholdReasons[k] = r

(* C21: the reasons of computeNodeHealth are either the single default      *)
(* positive reason, present exactly when no threshold reason fired and the  *)
(* tier is good, or threshold reasons in the evaluation order peers,        *)
(* diversity, latency, uptime, availability, freshness, none repeated.      *)
C21_ReasonsOrderedDistinct ==
    HealthDone =>
        LET rs == health.reasons
            quiet == Range(rs) \cap Range(ThresholdReasons) = {}
        IN  /\ NoTwoEqual(rs)
            /\ ReasonHealthy \in Range(rs) <=> (quiet /\ health.tier = "good")
            /\ ReasonHealthy \in Range(rs) => rs = <<ReasonHealthy>>
            /\ ReasonHealthy \notin Range(rs) =>
                  /\ Range(rs) \subseteq Range(ThresholdReasons)
                  /\ \A i, j \in 1..Len(rs) :
                        i < j => ThresholdRank(rs[i]) < ThresholdRank(rs[j])
            /\ rs = HealthReasons(argNode, now) \/ rs = <<ReasonHealthy>>

C21_Witness ==
    /\ HealthDone
    /\ health.tier = "good"
    /\ health.reasons = <<ReasonHealthy>>

C21_WitnessQuietWarning ==
    /\ HealthDone
    /\ health.tier = "warning"
    /\ health.reasons = <<>>

C21_WitnessAll ==
    /\ HealthDone
    /\ health.reasons = ThresholdReasons

-----------------------------------------------------------------------------
(* Properties of analyzeFailures on nodes without telemetry *)

TelemetryKeys ==
    {"peers_seen", "peersSeen", "peer_diversity", "peerDiversity",
     "response_latency", "responseLatency", "uptime", "uptime_ratio", "uptimeRatio",
     "data_availability", "dataAvailability", "dataAvailabilityRatio"}

ReportsNothing(n) == \A k \in TelemetryKeys \cap DOMAIN n : n[k] = Undef

SeenWithinTenMinutes(n) == n.lastSeen.t = "num" /\ now - n.lastSeen.v <= 600

(* C22: a node of the current roster seen at most 600 s ago that reports    *)
(* none of the optional telemetry fields carries no black_hole tag.         *)
C22_NoTelemetryNoBlackHole ==
    pc = "detected" =>
        \A i \in 1..Len(argCurrent) :
            (SeenWithinTenMinutes(argCurrent[i]) /\ ReportsNothing(argCurrent[i]))
                => ~Carries(analysis, argCurrent[i].pnodeId, "black_hole")

(* the availability default alone is neutral: with a peers-seen count of at *)
(* least 2 and no availability reported, a recently seen node is not tagged *)
C22_AbsentAvailabilityIsNeutral ==
    pc = "detected" =>
        \A i \in 1..Len(argCurrent) :
            LET n == argCurrent[i]
            IN  (/\ SeenWithinTenMinutes(n)
                 /\ ~PeersBelowTwo(n)
                 /\ PeersSeenOf(n).t = "num"
                 /\ DataAvailabilityOf(n) = Undef)
                    => ~Carries(analysis, n.pnodeId, "black_hole")

-----------------------------------------------------------------------------
(* computeRegionStats applied to rosters spread over several cells *)

MaxRegionRoster == 3

RegionLatitudes == {-15, -6, 4, 5, 14}

RegionNode(i, lat, st) ==
    MkNode(Ids[i], lat, IF i = 2 THEN -75 ELSE -66, st, 100, Num(Now0 - 30),
           PlainTelemetry, 1)

InitRegions ==
    /\ PageIdle
    /\ HookIdle
    /\ ViewIdle
    /\ ScoreIdle
    /\ now = Now0
    /\ pc = "region-input"
    /\ \E n \in 0..MaxRegionRoster :
          \E lats \in [1..n -> RegionLatitudes], sts \in [1..n -> Statuses] :
             argCurrent = [i \in 1..n |-> RegionNode(i, lats[i], sts[i])]
    /\ argSnapshots = <<>>
    /\ analysis = NoAnalysis

ComputeRegionStats ==
    /\ pc = "region-input"
    /\ regionStats' = computeRegionStats(argCurrent)
    /\ pc' = "region-done"
    /\ UNCHANGED <<nodes, loading, error, healthById, reputationById, networkHealth,
                   snapshots, failures, effect, inflight, started, ingested>>
    /\ UNCHANGED <<viewVars, pageVars, now, scoreVars, detectVars>>

NextRegions == ComputeRegionStats

SpecRegions == InitRegions /\ [][NextRegions]_vars

RECURSIVE SumTotals(_, _)
SumTotals(stats, keys) ==
    IF keys = {} THEN 0
    ELSE LET k == CHOOSE x \in keys : TRUE
         IN  stats[k].total + SumTotals(stats, keys \ {k})

(* m is the multiple of 10 nearest to x, the upper one when x lies halfway *)
NearestTen(x, m) == m % 10 = 0 /\ (x - m) \in -5..4

BucketOf(n, key) == NearestTen(n.latitude, key[1]) /\ NearestTen(n.longitude, key[2])

(* C23: the buckets of computeRegionStats are the cells of latitude and     *)
(* longitude rounded to the nearest multiple of 10; the totals sum to the   *)
(* roster size, every node lies in exactly one bucket, and in every bucket  *)
(* total - online - offline is the number of its unknown-status nodes.      *)
C23_BucketsPartitionRoster ==
    pc = "region-done" =>
        /\ SumTotals(regionStats, DOMAIN regionStats) = Len(argCurrent)
        /\ \A i \in 1..Len(argCurrent) :
              Cardinality({key \in DOMAIN regionStats : BucketOf(argCurrent[i], key)}) = 1
        /\ \A key \in DOMAIN regionStats :
              LET members == {i \in 1..Len(argCurrent) : BucketOf(argCurrent[i], key)}
                  st == regionStats[key]
              IN  /\ st.total = Cardinality(members)
                  /\ st.total >= 1
                  /\ st.online = Cardinality({i \in members : argCurrent[i].status = "online"})
                  /\ st.offline = Cardinality({i \in members : argCurrent[i].status = "offline"})
                  /\ st.online + st.offline <= st.total
                  /\ st.total - st.online - st.offline
                        = Cardinality({i \in members : argCurrent[i].status = "unknown"})

C23_Witness ==
    /\ pc = "region-done"
    /\ Len(argCurrent) = 3
    /\ argCurrent[1].latitude = 5 /\ argCurrent[3].latitude = 14
    /\ argCurrent[2].latitude = -15
    /\ argCurrent[1].status = "unknown" /\ argCurrent[3].status = "offline"
    /\ DOMAIN regionStats = {<<10, -70>>, <<-10, -70>>}
    /\ regionStats[<<10, -70>>] = [total |-> 2, online |-> 0, offline |-> 1]

-----------------------------------------------------------------------------
(* The time-travel memo of App applied to stores of several ages *)

TravelRoster(k) ==
    <<ViewNode(1, CycleStatus(k), Num(Now0 - 30)),
      ViewNode(2, "online", Num(Now0 - 400)),
      ViewNode(3, "unknown", Str)>>

(* ages, in seconds, of the snapshots of a store, oldest first *)
TravelAges ==
    { <<>>, <<100>>, <<5000, 2000, 100>>, <<90000, 3000>>, <<700000, 650000>> }

TravelIndexes == -2..(SyntheticSteps + 1)

TravelStore(ages) ==
    [k \in 1..Len(ages) |-> Snapshot(Now0 - ages[k], TravelRoster(k))]

InitTravel ==
    /\ PageIdle
    /\ ScoreIdle
    /\ DetectIdle
    /\ now = Now0
    /\ pc = "travel-input"
    /\ \E ages \in TravelAges :
          /\ snapshots = TravelStore(ages)
          /\ nodes = IF ages = <<>> THEN <<>> ELSE TravelRoster(Len(ages))
          /\ ingested = [k \in 1..Len(ages) |-> TravelRoster(k)]
    /\ healthById = HealthMap(nodes, now)
    /\ reputationById = ReputationMap(nodes, now)
    /\ networkHealth = computeNetworkHealth(nodes, now)
    /\ failures = NoAnalysis
    /\ regionStats = computeRegionStats(nodes)
    /\ loading = FALSE
    /\ error = "null"
    /\ effect = [gen |-> 1, live |-> TRUE, snapshots |-> <<>>]
    /\ inflight = {}
    /\ started = 0
    /\ timeMode \in TimeModes
    /\ timeIndex \in TravelIndexes
    /\ reputationFilter = "all"
    /\ view = LiveView(<<>>, <<>>)
    /\ orderedNodes = <<>>

ResolveTimeTravel ==
    /\ pc = "travel-input"
    /\ view' = TimeTravel(timeMode, timeIndex, snapshots, nodes, healthById, now)
    /\ orderedNodes' = OrderedNodes(view'.displayNodes, reputationById, reputationFilter)
    /\ pc' = "travel-done"
    /\ UNCHANGED <<hookVars, pageVars, timeMode, timeIndex, reputationFilter, now, scoreVars,
                   detectVars>>

NextTravel == ResolveTimeTravel

SpecTravel == InitTravel /\ [][NextTravel]_vars

(* the position, counted from 1, that the requested index is clamped to *)
NearestValid(index, len) ==
    IF index >= len THEN len ELSE IF index < 0 THEN 1 ELSE index + 1

(* C24: with a non-empty window (real or synthetic) the memo shows the      *)
(* snapshot at the requested index, the last one for an index >= length and *)
(* the first one for a negative index, the window being in timestamp order. *)
C24_IndexClampedToNearest ==
    (pc = "travel-done" /\ view.availableSnapshots # <<>>) =>
        LET window == view.availableSnapshots
            k == NearestValid(timeIndex, Len(window))
        IN  /\ view.snap = <<window[k]>>
            /\ view.displayNodes = window[k].nodes
            /\ \A i, j \in 1..Len(window) :
                  i < j => window[i].timestamp < window[j].timestamp
            /\ \/ /\ ~view.isSyntheticHistory
                   /\ window = WindowSnapshots(snapshots, WindowSec(timeMode), now)
                \/ /\ view.isSyntheticHistory
                   /\ Len(window) = SyntheticSteps

C24_Witness ==
    /\ pc = "travel-done"
    /\ ~view.isSyntheticHistory
    /\ Len(view.availableSnapshots) = 2
    /\ timeIndex = -1
    /\ view.snap = <<view.availableSnapshots[1]>>

C24_WitnessBeyond ==
    /\ pc = "travel-done"
    /\ view.isSyntheticHistory
    /\ timeIndex = SyntheticSteps + 1
    /\ view.snap = <<view.availableSnapshots[SyntheticSteps]>>

C24_WitnessInRange ==
    /\ pc = "travel-done"
    /\ ~view.isSyntheticHistory
    /\ Len(view.availableSnapshots) = 3
    /\ timeIndex = 1
    /\ view.snap = <<view.availableSnapshots[2]>>
    /\ view.displayNodes = TravelRoster(2)

StatusStep(st) ==
    IF st = "online" THEN "unknown" ELSE IF st = "unknown" THEN "offline" ELSE st

Abs(x) == IF x < 0 THEN -x ELSE x

SyntheticShown == pc = "travel-done" /\ view.isSyntheticHistory

StatusKeptOrOneStep(k, p) ==
    LET st == view.availableSnapshots[k].nodes[p].status
    IN  st = nodes[p].status \/ st = StatusStep(nodes[p].status)

LastSeenNearRoster(k, p) ==
    LET ls == view.availableSnapshots[k].nodes[p].lastSeen
    IN  /\ nodes[p].lastSeen.t = "num"
        /\ ls.t = "num"
        /\ 5 * Abs(ls.v - nodes[p].lastSeen.v) <= WindowSec(timeMode)

StatusesOf(snaps) ==
    [k \in 1..Len(snaps) |-> [p \in 1..Len(snaps[k].nodes) |-> snaps[k].nodes[p].status]]

(* a second query over the same roster and window, 77 s later *)
SameStatusesLater ==
    StatusesOf(view.availableSnapshots)
        = StatusesOf(SyntheticSnapshots(nodes, WindowSec(timeMode), now + 77))

(* C25: in every synthetic snapshot each node keeps its roster status or is *)
(* one step further along online, unknown, offline; its lastSeen is within  *)
(* 20% of the window width of the roster's lastSeen; a repeated query gives *)
(* the same statuses.                                                       *)
C25_SyntheticStaysNearRoster ==
    SyntheticShown =>
        /\ \A k \in 1..Len(view.availableSnapshots) :
              /\ Len(view.availableSnapshots[k].nodes) = Len(nodes)
              /\ \A p \in 1..Len(nodes) :
                    StatusKeptOrOneStep(k, p) /\ LastSeenNearRoster(k, p)
        /\ SameStatusesLater

(* the same without the lastSeen part *)
C25_StatusOneStepAndRepeatable ==
    SyntheticShown =>
        /\ \A k \in 1..Len(view.availableSnapshots) :
              /\ Len(view.availableSnapshots[k].nodes) = Len(nodes)
              /\ \A p \in 1..Len(nodes) : StatusKeptOrOneStep(k, p)
        /\ SameStatusesLater

(* the lastSeen part for the nodes whose lastSeen parses *)
C25_LastSeenNearWhenParseable ==
    SyntheticShown =>
        \A k \in 1..Len(view.availableSnapshots) : \A p \in 1..Len(nodes) :
            (nodes[p].lastSeen.t = "num" /\ nodes[p].lastSeen.v # 0)
                => LastSeenNearRoster(k, p)

(* a downgrade, a kept status and the largest shift all occur *)
C25_StepsOccur ==
    /\ SyntheticShown
    /\ \E k \in 1..SyntheticSteps :
          /\ view.availableSnapshots[k].nodes[2].status = "online"
          /\ view.availableSnapshots[k].nodes[3].status = "unknown"
    /\ view.availableSnapshots[1].nodes[2].status = "unknown"
    /\ view.availableSnapshots[1].nodes[3].status = "offline"
    /\ 5 * Abs(view.availableSnapshots[1].nodes[1].lastSeen.v - nodes[1].lastSeen.v)
          = WindowSec(timeMode)

-----------------------------------------------------------------------------
(* buildNodeExplainability applied to snapshot histories *)

MaxTrend == 4

(* what a snapshot says about the inspected node: nothing (the node is      *)
(* absent), a last-seen age in seconds, or an unparseable lastSeen          *)
TrendMarks == {Undef, Num(100), Num(140), Num(141), Str}

TrendSnapshot(k, mark) ==
    Snapshot(Now0 - 1000 + k,
             IF mark = Undef THEN <<ExplainPeer(2)>>
             ELSE <<ExplainPeer(2),
                    MkNode("n1", 10, 20, "online", 100,
                           IF mark = Str THEN Str ELSE Num(Now0 - mark.v),
                           NominalTelemetry, 1)>>)

(* the marks, with pad snapshots without the node after the first of them *)
TrendHistory(marks, pad) ==
    LET all == IF marks = <<>> THEN <<>>
               ELSE <<marks[1]>> \o [k \in 1..pad |-> Undef] \o Tail(marks)
    IN  [k \in 1..Len(all) |-> TrendSnapshot(k, all[k])]

TrendPads == {0, TrendWindow - 3, TrendWindow - 2}

InitTrend ==
    /\ PageIdle
    /\ HookIdle
    /\ ViewIdle
    /\ now = Now0
    /\ pc = "why-input"
    /\ argNode = ExplainNode("online", 100)
    /\ argCurrent = <<ExplainPeer(2), argNode>>
    /\ analysis = NoAnalysis
    /\ argHealth = NoHealth
    /\ reputation = NoReputation
    /\ \E n \in 0..MaxTrend : \E marks \in [1..n -> TrendMarks] : \E pad \in TrendPads :
          argSnapshots = TrendHistory(marks, pad)
    /\ argRoster = <<>>
    /\ health = NoHealth
    /\ netHealth = Num(0)
    /\ explain = NoExplain

SpecTrend == InitTrend /\ [][NextExplain]_vars

(* the positions, among the last 20 snapshots, at which the node appears *)
Appearances ==
    {k \in Max(1, Len(argSnapshots) - 19)..Len(argSnapshots) :
        \E n \in Range(argSnapshots[k].nodes) : n.pnodeId = argNode.pnodeId}

(* the j-th most recent appearance *)
RECURSIVE Recent(_, _)
Recent(ks, j) ==
    LET top == CHOOSE k \in ks : \A x \in ks : x <= k
    IN  IF j = 1 THEN top ELSE Recent(ks \ {top}, j - 1)

LastSeenAt(k) ==
    (CHOOSE n \in Range(argSnapshots[k].nodes) : n.pnodeId = argNode.pnodeId).lastSeen

(* the age of the later exceeds 1.4 times the age of the earlier, an        *)
(* unparseable lastSeen being an infinite age                               *)
AgeGrewByTwoFifths(earlier, later) ==
    /\ earlier.t = "num"
    /\ later.t = "num" => 10 * (now - later.v) > 14 * (now - earlier.v)

(* C26: the drifting prediction is emitted exactly when the node appears in *)
(* at least 3 of the last 20 snapshots and, over its 3 most recent          *)
(* appearances, the latest age exceeds 1.4 times the earliest.              *)
C26_DriftIffTrend ==
    pc = "why-done" =>
        (PredictDrift \in Range(explain.predictions)) <=>
            /\ Cardinality(Appearances) >= 3
            /\ AgeGrewByTwoFifths(LastSeenAt(Recent(Appearances, 3)),
                                  LastSeenAt(Recent(Appearances, 1)))

C26_Witness ==
    /\ pc = "why-done"
    /\ Len(argSnapshots) = TrendWindow + 1
    /\ Cardinality(Appearances) = 3
    /\ LastSeenAt(Recent(Appearances, 3)) = Num(now - 100)
    /\ LastSeenAt(Recent(Appearances, 1)) = Num(now - 141)
    /\ HasId(argSnapshots[1].nodes, argNode.pnodeId)
    /\ LastSeenAt(1) = Num(now - 141)
    /\ explain.predictions = <<PredictDrift>>

C26_WitnessOutOfWindow ==
    /\ pc = "why-done"
    /\ Len(argSnapshots) = TrendWindow + 1
    /\ Cardinality(Appearances) = 2
    /\ HasId(argSnapshots[1].nodes, argNode.pnodeId)
    /\ LastSeenAt(1) = Num(now - 100)
    /\ Len(argSnapshots) \in Appearances
    /\ LastSeenAt(Len(argSnapshots)) = Num(now - 141)
    /\ explain.predictions = <<>>

C26_WitnessBoundary ==
    /\ pc = "why-done"
    /\ Cardinality(Appearances) = 3
    /\ LastSeenAt(Recent(Appearances, 3)) = Num(now - 100)
    /\ LastSeenAt(Recent(Appearances, 1)) = Num(now - 140)
    /\ explain.predictions = <<>>

-----------------------------------------------------------------------------
(* Properties of the hook under overlapping fetches and cleanup *)

(* the tags computed from the current roster alone *)
RosterTags(fa, id) == Range(TagsOf(fa.anomaliesById, id)) \ {"sudden_drop"}

NewestSnapshot == snapshots[Len(snapshots)]

(* C27: once a fetch has succeeded, the roster, the keys of healthById and  *)
(* reputationById, the region statistics, the black-hole and isolation tags *)
(* of the analysis and the newest stored snapshot all come from the roster  *)
(* of the fetch that completed last, whatever the order of completion.      *)
C27_PublishedFromOneRoster ==
    ingested # <<>> =>
        /\ nodes = LastIngested
        /\ DOMAIN healthById = IdsOf(LastIngested)
        /\ DOMAIN reputationById = IdsOf(LastIngested)
        /\ regionStats = computeRegionStats(LastIngested)
        /\ snapshots # <<>>
        /\ NewestSnapshot.nodes = LastIngested
        /\ healthById = HealthMap(LastIngested, NewestSnapshot.timestamp)
        /\ \A id \in Range(Ids) :
              RosterTags(failures, id)
                = RosterTags(analyzeFailures(<<>>, LastIngested, NewestSnapshot.timestamp), id)

(* the second load completed while the first is still in flight *)
C27_Witness ==
    /\ \E req \in inflight : req.id = 1 /\ ~Cancelled(req)
    /\ started >= 2
    /\ Len(ingested) = 1
    /\ nodes = LastIngested
    /\ Len(nodes) = 2

(* two overlapping loads have completed with different rosters *)
C27_WitnessBothCompleted ==
    /\ inflight = {}
    /\ started = 2
    /\ now = Now0 + PollSec
    /\ Len(ingested) = 2
    /\ Len(ingested[1]) = 2
    /\ nodes = LastIngested
    /\ Len(nodes) = 1
    /\ regionStats = computeRegionStats(nodes)

(* the request was started by an effect that has been cleaned up since *)
OfCleanedUpEffect(req) == (effect.gen > 0 /\ ~effect.live) \/ req.gen < effect.gen

(* a step in which such a request completes *)
StaleFetchCompleted ==
    \E req \in inflight : OfCleanedUpEffect(req) /\ inflight' = inflight \ {req}

(* C28: the completion, with a roster or an error, of a fetch whose effect  *)
(* has been cleaned up changes neither store, roster, maps, analysis,       *)
(* region statistics, error nor loading; and every load that starts belongs *)
(* to the effect that is live, none starting after an unmount.              *)
C28_CleanedUpEffectIsSilent ==
    [][ /\ StaleFetchCompleted =>
              UNCHANGED <<nodes, healthById, reputationById, networkHealth, snapshots,
                          failures, regionStats, error, loading, ingested>>
        /\ LoadStarted =>
              /\ effect'.live
              /\ \A req \in inflight' \ inflight : req.gen = effect'.gen
        /\ (effect.gen > 0 /\ ~effect.live) => ~LoadStarted ]_vars

(* the only load completed after the unmount: loading was never reset *)
C28_Witness ==
    /\ ~effect.live
    /\ started = 1
    /\ inflight = {}
    /\ loading = TRUE
    /\ error = "null"
    /\ snapshots = <<>>
    /\ nodes = <<>>

(* pollMs changed, the load of the old effect has completed since, the one  *)
(* of the new effect is in flight                                           *)
C28_WitnessPollChange ==
    /\ effect.live
    /\ effect.gen = 2
    /\ started = 2
    /\ inflight = {[id |-> 2, gen |-> 2]}
    /\ loading = TRUE
    /\ ingested = <<>>

-----------------------------------------------------------------------------
(* discoverPNodes.js *)

(* a field that is missing, or an empty string *)
Absent == ""

(* the strings a seed list may hold, and String.prototype.trim on them *)
SeedStrings == {"s1", " s2 ", "  "}

Trim(s) == IF s = " s2 " THEN "s2" ELSE IF s = "  " THEN "" ELSE s

(* a gossip peer *)
Peer(pnodeId, id, addr) == [pnodeId |-> pnodeId, id |-> id, addr |-> addr]

Stringify(peer) == "{addr:" \o peer.addr \o "}"

(* peer.pnodeId || peer.id || JSON.stringify(peer) *)
PeerKey(peer) ==
    IF peer.pnodeId # Absent THEN peer.pnodeId
    ELSE IF peer.id # Absent THEN peer.id
    ELSE Stringify(peer)

(* { ...peer, discoveredFrom: trimmed, lastSeen: Date.now() } *)
DiscoveryRecord(peer, from, t) ==
    [pnodeId |-> peer.pnodeId, id |-> peer.id, addr |-> peer.addr,
     discoveredFrom |-> from, lastSeen |-> t]

Over(old, new) == IF new = Absent THEN old ELSE new

(* { ...existing, ...record }: the fields of record replace those of existing *)
Spread(existing, record) ==
    [pnodeId |-> Over(existing.pnodeId, record.pnodeId),
     id |-> Over(existing.id, record.id),
     addr |-> Over(existing.addr, record.addr),
     discoveredFrom |-> record.discoveredFrom,
     lastSeen |-> record.lastSeen]

(* a Map as the sequence of its entries in insertion order *)
MapHas(m, key) == \E k \in 1..Len(m) : m[k].key = key
MapGet(m, key) == m[CHOOSE k \in 1..Len(m) : m[k].key = key].value
MapSet(m, key, value) ==
    IF MapHas(m, key)
    THEN [k \in 1..Len(m) |-> IF m[k].key = key THEN [key |-> key, value |-> value]
                              ELSE m[k]]
    ELSE Append(m, [key |-> key, value |-> value])

(* gossip.forEach(...) of one seed *)
RECURSIVE RecordPeers(_, _, _, _)
RecordPeers(m, peers, from, t) ==
    IF peers = <<>> THEN m
    ELSE LET peer == Head(peers)
             key == PeerKey(peer)
             record == DiscoveryRecord(peer, from, t)
             next == IF ~MapHas(m, key) THEN MapSet(m, key, record)
                     ELSE MapSet(m, key, Spread(MapGet(m, key), record))
         IN  RecordPeers(next, Tail(peers), from, t)

(* what callPRPC(seed, "pnode.gossipPeers") does: it throws, or returns an  *)
(* array of peers or something else                                         *)
Answer(kind, peers) == [kind |-> kind, peers |-> peers]

(* the loop over the seeds from the i-th on; answers[i] is what the call to *)
(* the i-th seed does, made at time t + i                                   *)
RECURSIVE QuerySeeds(_, _, _, _, _)
QuerySeeds(m, seeds, answers, i, t) ==
    IF i > Len(seeds) THEN m
    ELSE LET trimmed == Trim(seeds[i])
         IN  IF trimmed = "" THEN QuerySeeds(m, seeds, answers, i + 1, t)
             ELSE IF answers[i].kind # "array"
                  THEN QuerySeeds(m, seeds, answers, i + 1, t)
                  ELSE QuerySeeds(RecordPeers(m, answers[i].peers, trimmed, t + i),
                                  seeds, answers, i + 1, t)

(* Array.from(discovered.values()) *)
discoverPNodes(seeds, answers, t) ==
    LET m == QuerySeeds(<<>>, seeds, answers, 1, t)
    IN  [k \in 1..Len(m) |-> m[k].value]

-----------------------------------------------------------------------------
(* discoverPNodes applied to seed lists and answers *)

MaxSeeds == 2

(* two descriptions of one peer, a peer known by its id only, a peer        *)
(* without identifier                                                       *)
GossipArrays ==
    { <<>>,
      <<Peer("p1", Absent, "a")>>,
      <<Peer("p1", "x", Absent), Peer(Absent, "p2", "b")>>,
      <<Peer(Absent, Absent, "c"), Peer("p1", Absent, "a")>>,
      <<Peer(Absent, "p2", "b"), Peer(Absent, "p2", "b")>> }

Answers ==
    {Answer("throws", <<>>), Answer("object", <<>>)}
        \cup {Answer("array", peers) : peers \in GossipArrays}

InitDiscover ==
    /\ HookIdle
    /\ ViewIdle
    /\ ScoreIdle
    /\ DetectIdle
    /\ now = Now0
    /\ pc = "discover-input"
    /\ \E n \in 0..MaxSeeds :
          /\ seedNodes \in [1..n -> SeedStrings]
          /\ gossip \in [1..n -> Answers]
    /\ discovered = <<>>
    /\ seedText = <<>>
    /\ lastSeedList = <<>>
    /\ currentResults = <<>>
    /\ isBusy = FALSE
    /\ discoverDisabled = FALSE
    /\ refreshDisabled = TRUE
    /\ statusText = StatusReady
    /\ running = <<>>

DiscoverPNodes ==
    /\ pc = "discover-input"
    /\ discovered' = discoverPNodes(seedNodes, gossip, now)
    /\ pc' = "discovered"
    /\ UNCHANGED <<hookVars, viewVars, now, scoreVars, detectVars, seedNodes, gossip,
                   pageState>>

NextDiscover == DiscoverPNodes

SpecDiscover == InitDiscover /\ [][NextDiscover]_vars

(* the seeds, by position, that were queried and answered with an array     *)
(* holding a peer of that key                                               *)
ReportedBy(key) ==
    {i \in 1..Len(seedNodes) :
        /\ Trim(seedNodes[i]) # ""
        /\ gossip[i].kind = "array"
        /\ \E peer \in Range(gossip[i].peers) : PeerKey(peer) = key}

ReportedKeys ==
    {PeerKey(Peer(a, b, c)) : a \in {Absent, "p1"}, b \in {Absent, "x", "p2"},
                              c \in {Absent, "a", "b", "c"}}

Earliest(S) == CHOOSE i \in S : \A j \in S : i <= j
Latest(S) == CHOOSE i \in S : \A j \in S : j <= i

(* the record returned for a key; its key is that of the first report *)
RecordsOf(key) == {k \in 1..Len(discovered) : PeerKey(discovered[k]) = key}

OneRecordPerReportedKey ==
    /\ \A key \in ReportedKeys : ReportedBy(key) # {} <=> RecordsOf(key) # {}
    /\ \A key \in ReportedKeys : Cardinality(RecordsOf(key)) <= 1
    /\ \A k \in 1..Len(discovered) : PeerKey(discovered[k]) \in ReportedKeys

(* C29: discoverPNodes returns one record per distinct peer key reported by *)
(* the seeds that answered, failing seeds not stopping the others, and the  *)
(* record of a peer names the earliest seed that reported it.               *)
C29_DiscoveredFromEarliestSeed ==
    pc = "discovered" =>
        /\ OneRecordPerReportedKey
        /\ \A key \in ReportedKeys : \A k \in RecordsOf(key) :
              discovered[k].discoveredFrom = Trim(seedNodes[Earliest(ReportedBy(key))])

(* what the code does: the record names the latest seed that reported it *)
C29_DiscoveredFromLatestSeed ==
    pc = "discovered" =>
        /\ OneRecordPerReportedKey
        /\ \A key \in ReportedKeys : \A k \in RecordsOf(key) :
              discovered[k].discoveredFrom = Trim(seedNodes[Latest(ReportedBy(key))])

(* a failing first seed, a second seed that is recorded *)
C29_AfterFailingSeed ==
    /\ pc = "discovered"
    /\ Len(seedNodes) = 2
    /\ gossip[1].kind = "throws"
    /\ seedNodes[1] = "s1"
    /\ Len(discovered) = 2
    /\ discovered[1].discoveredFrom = "s2"

-----------------------------------------------------------------------------
(* The discovery page *)

StatusEnterSeeds == "Enter at least one seed pNode endpoint."
StatusDiscovering == "Discovering gossip peers from seed nodes"
StatusComplete == "Discovery complete"
StatusError == "Error during discovery"

(* the entries of s without repetitions, first occurrences in order *)
RECURSIVE Distinct(_)
Distinct(s) ==
    IF s = <<>> THEN <<>>
    ELSE LET init == Distinct(SubSeq(s, 1, Len(s) - 1))
         IN  IF s[Len(s)] \in Range(init) THEN init ELSE Append(init, s[Len(s)])

(* the lines of the textarea, trimmed, the empty ones dropped, without      *)
(* repetitions                                                              *)
parseSeedNodes(lines) ==
    LET trimmed == [k \in 1..Len(lines) |-> Trim(lines[k])]
    IN  Distinct(SelectSeq2(trimmed, [k \in 1..Len(trimmed) |-> trimmed[k] # ""]))

(* enrichWithGeo: a peer with an address gets a geoLabel when the lookup    *)
(* finds it                                                                 *)
enrichWithGeo(peers, found) ==
    [k \in 1..Len(peers) |->
        [pnodeId |-> peers[k].pnodeId, id |-> peers[k].id, addr |-> peers[k].addr,
         discoveredFrom |-> peers[k].discoveredFrom, lastSeen |-> peers[k].lastSeen,
         geoLabel |-> IF found /\ peers[k].addr # Absent THEN "city, CC" ELSE Absent]]

(* setBusy(busy, message), lastSeedList having the value seedList *)
setBusy(busy, message, seedList) ==
    /\ isBusy' = busy
    /\ discoverDisabled' = busy
    /\ refreshDisabled' = (busy \/ Len(seedList) = 0)
    /\ statusText' = message

(* runDiscovery(fromRefresh) up to its first await *)
runDiscovery(fromRefresh) ==
    LET seeds == IF fromRefresh THEN lastSeedList ELSE parseSeedNodes(seedText)
    IN  IF Len(seeds) = 0
        THEN /\ statusText' = StatusEnterSeeds
             /\ UNCHANGED <<lastSeedList, isBusy, discoverDisabled, refreshDisabled, running>>
        ELSE /\ lastSeedList' = seeds
             /\ setBusy(TRUE, StatusDiscovering, seeds)
             /\ running' = Append(running, seeds)

NoPageChange == UNCHANGED <<hookVars, viewVars, now, pc, scoreVars, detectVars, discoverVars>>

(* the user edits the textarea *)
EditSeeds(lines) ==
    /\ lines # seedText
    /\ seedText' = lines
    /\ UNCHANGED <<lastSeedList, currentResults, isBusy, discoverDisabled, refreshDisabled,
                   statusText, running>>
    /\ NoPageChange

Submit_Unguarded ==
    /\ runDiscovery(FALSE)
    /\ UNCHANGED <<seedText, currentResults>>
    /\ NoPageChange

(* the submit listener of the form *)
Submit ==
    /\ IF isBusy
       THEN UNCHANGED <<lastSeedList, isBusy, discoverDisabled, refreshDisabled,
                        statusText, running>>
       ELSE runDiscovery(FALSE)
    /\ UNCHANGED <<seedText, currentResults>>
    /\ NoPageChange

(* the click listener of the refresh button *)
RefreshClick ==
    /\ IF isBusy
       THEN UNCHANGED <<lastSeedList, isBusy, discoverDisabled, refreshDisabled,
                        statusText, running>>
       ELSE runDiscovery(TRUE)
    /\ UNCHANGED <<seedText, currentResults>>
    /\ NoPageChange

Without(s, k) == SubSeq(s, 1, k - 1) \o SubSeq(s, k + 1, Len(s))

(* the k-th call in flight goes on after its awaits: the seeds answered     *)
(* with answers, the geo lookup found the addresses or not, and rendering   *)
(* the table threw or not                                                   *)
DiscoveryEnds(k, answers, found, threw) ==
    /\ k \in 1..Len(running)
    /\ currentResults' = enrichWithGeo(discoverPNodes(running[k], answers, now), found)
    /\ setBusy(FALSE, IF threw THEN StatusError ELSE StatusComplete, lastSeedList)
    /\ running' = Without(running, k)
    /\ UNCHANGED <<seedText, lastSeedList>>
    /\ NoPageChange

SeedTexts == { <<>>, <<"s1">>, <<"s1", " s2 ", "s1">>, <<"  ", " s2 ">> }

PageAnswers ==
    { <<Answer("array", <<Peer("p1", Absent, "a")>>),
        Answer("array", <<Peer("p1", "x", Absent), Peer(Absent, "p2", "b")>>)>>,
      <<Answer("throws", <<>>), Answer("array", <<Peer(Absent, Absent, "c")>>)>>,
      <<Answer("object", <<>>), Answer("throws", <<>>)>> }

InitPage ==
    /\ PageIdle
    /\ HookIdle
    /\ ViewIdle
    /\ ScoreIdle
    /\ DetectIdle
    /\ now = Now0
    /\ pc = "page"

NextPage ==
    \/ \E lines \in SeedTexts : EditSeeds(lines)
    \/ Submit
    \/ RefreshClick
    \/ \E k \in 1..Len(running) : \E answers \in PageAnswers : \E found, threw \in BOOLEAN :
          DiscoveryEnds(k, answers, found, threw)

SpecPage == InitPage /\ [][NextPage]_vars

(* a step in which a call of runDiscovery ends *)
DiscoveryEnded == Len(running') < Len(running)

(* a step in which runDiscovery found no seed *)
EmptyRequest == statusText' = StatusEnterSeeds /\ statusText # StatusEnterSeeds

(* C30: at most one runDiscovery is in flight, and isBusy says whether one  *)
(* is; an event while busy starts nothing; the end of a discovery, thrown   *)
(* or not, leaves isBusy false; a request with an empty seed list changes   *)
(* neither isBusy nor lastSeedList; the refresh button is disabled exactly  *)
(* when busy or no seed list has been used, a used list never being empty   *)
(* nor forgotten.                                                           *)
C30_OneDiscoveryAtATime ==
    /\ [](/\ Len(running) <= 1
          /\ isBusy <=> Len(running) = 1
          /\ refreshDisabled <=> (isBusy \/ lastSeedList = <<>>)
          /\ discoverDisabled <=> isBusy)
    /\ [][ /\ isBusy => Len(running') <= Len(running)
           /\ DiscoveryEnded => ~isBusy'
           /\ EmptyRequest => UNCHANGED <<isBusy, lastSeedList, running>>
           /\ Len(running') > Len(running) => lastSeedList' = running'[Len(running')]
           /\ lastSeedList # <<>> => lastSeedList' # <<>> ]_vars

(* a discovery is in flight, started by a refresh of an earlier list while  *)
(* the textarea holds other seeds                                           *)
C30_Witness ==
    /\ isBusy
    /\ running = <<lastSeedList>>
    /\ lastSeedList = <<"s1", "s2">>
    /\ parseSeedNodes(seedText) = <<"s2">>
    /\ currentResults # <<>>
    /\ refreshDisabled

C30_WitnessAfterThrow ==
    /\ ~isBusy
    /\ statusText = StatusError
    /\ ~refreshDisabled
    /\ running = <<>>

C30_WitnessEmptyRequest ==
    /\ statusText = StatusEnterSeeds
    /\ ~isBusy
    /\ lastSeedList = <<>>
    /\ refreshDisabled

=============================================================================
